---- MODULE Spec2Model ----
(***************************************************************************)
(* Trip and trip-item persistence of the itinerary planner.                *)
(*                                                                         *)
(* LocalStorageService (src/auth.js) keeps two JSON arrays in localStorage *)
(* ('travel_planner_trips', 'travel_planner_trip_items'); TripManager      *)
(* (src/storage.js) validates caller input and delegates trip operations   *)
(* to it.  Every handler is synchronous between its reads and writes of    *)
(* the store, so each one is a single action.                              *)
(*                                                                         *)
(* JavaScript values are modelled as strings: an absent property is the    *)
(* string Undef, dates are the strings the callers pass, and `new Date(s)` *)
(* is the function DateValue.  The values stored are strings and arrays of *)
(* records of strings, on which JSON.parse(JSON.stringify(v)) returns an   *)
(* equal value, so the store variables hold the parsed arrays.             *)
(* TripManager's list cache (this.trips) and its emitted events only feed  *)
(* rendering and are not part of the state.                                *)
(***************************************************************************)
EXTENDS Integers, Sequences, FiniteSets, TLC

VARIABLES
    trips,        \* parsed value of localStorage['travel_planner_trips']
    tripItems,    \* parsed value of localStorage['travel_planner_trip_items']
    clock,        \* Date.now(), non-decreasing
    nextId,       \* number of generateId() calls so far, plus one
    currentTrip,  \* TripManager.currentTrip: <<>> for null, else <<trip>>
    last,         \* the most recent repository call and what its caller saw
    exported,     \* the object exportData() last returned: <<>> before any
    tabs,         \* per browser tab, the LocalStorageService call in progress
    managerFilters, \* TripManager.filters
    notifier,     \* the NotificationManager: its reminders, timers and calls in progress
    session,      \* the AuthManager: isAuthenticated, accessToken, refreshTimer
    importHistory \* localStorage['travel_planner_import_history'] and its refused writes

vars == <<trips, tripItems, clock, nextId, currentTrip, last, exported, tabs,
          managerFilters, notifier, session, importHistory>>

----------------------------------------------------------------------------
(* Bounds *)

\* generateId() is called at most this many times in a behaviour of Spec,
\* SpecCarriedIds, SpecDates and SpecItems
MaxIds == 3

MaxIdsCarried == 2

MaxIdsDates == 2

MaxIdsItems == 3

MaxIdsTouch == 2

MaxIdsStamps == 2

MaxIdsTabs == 3

MaxIdsQueries == 2
\* the calls to generateId() explored under SpecItemDates
MaxIdsItemDates == 3
\* the calls to generateId() explored under SpecListing
MaxIdsListing == 2
\* the calls to generateId() explored under SpecWritten
MaxIdsWritten == 3
\* the executeReminder calls explored for one reminder
MaxAttempts == 3
\* the calls to generateId() explored under SpecReads
MaxIdsReads == 2
\* the executeReminder calls explored for one reminder under SpecBackoff
MaxAttemptsBackoff == 4
\* the logins, registrations and token refreshes explored under SpecSession
MaxIssued == 3
\* the logout() and refreshToken() calls that wait for a reply at one time
MaxSuspended == 2
\* the calls to generateId() explored under SpecImports
MaxIdsImports == 52
\* the writes of the import history that the quota refuses under SpecImports
MaxRejected == 1

\* the clock advances at most MaxClock times
MaxClock == 1

----------------------------------------------------------------------------
(* JavaScript values *)

Undef == "undefined"

\* a property is falsy when it is absent or the empty string
Falsy(v) == v = Undef \/ v = ""

\* obj.hasOwnProperty(key)
HasOwn(obj, key) == obj[key] # Undef

\* generateId(): Date.now().toString(36) + Math.random().toString(36);
\* the n-th call returns a string no earlier call returned
GenId(n) == "id" \o ToString(n)

\* an id no generateId() call returns
ForeignId == "foreign-id"

\* new Date(ms).toISOString()
ISO(ms) == "T" \o ToString(ms)

\* new Date(s).getTime() for the date strings and the toISOString() stamps in
\* use; NaN for anything else
NaN == -1

KnownDates ==
    [s \in {"2024-05-01", "2024-05-10", "2024-05-20"} |->
        CASE s = "2024-05-01" -> 1
          [] s = "2024-05-10" -> 10
          [] s = "2024-05-20" -> 20]

DateValue(s) ==
    IF s \in DOMAIN KnownDates THEN KnownDates[s]
    ELSE IF \E ms \in 0..(MaxClock + 1) : ISO(ms) = s
    THEN CHOOSE ms \in 0..(MaxClock + 1) : ISO(ms) = s
    ELSE NaN

\* a - b of two Date objects, used as a sort comparator's result; a NaN
\* result is treated as 0 by Array.prototype.sort
DateDiff(a, b) ==
    IF DateValue(a) = NaN \/ DateValue(b) = NaN THEN 0
    ELSE DateValue(a) - DateValue(b)

\* a > b of two Date objects: false when either is an Invalid Date
DateGreater(a, b) ==
    DateValue(a) # NaN /\ DateValue(b) # NaN /\ DateValue(a) > DateValue(b)

\* a title of 201 characters
LongTitle == "long-title-of-201-characters"

\* String.prototype.length
StrLength(s) == IF s = LongTitle THEN 201 ELSE Len(s)

\* String.prototype.trim for the titles in use
Trim(s) == IF s \in {" ", "   "} THEN "" ELSE s

----------------------------------------------------------------------------
(* TripManager's tables *)

StatusMapKeys == {"planning", "confirmed", "ongoing", "completed", "cancelled"}

TitleMaxLength == 200

----------------------------------------------------------------------------
(* LocalStorageService: reads *)

\* the array under a key after a handler changed, in place, the array
\* getFromStorage returned for it and made no setInStorage call: an array
\* that shares the store's records
DiscardParsed_aliased(stored, parsed) == parsed

\* the array under a key after a handler changed, in place, the array
\* getFromStorage returned for it and made no setInStorage call: JSON.parse
\* builds a new array on every call
DiscardParsed(stored, parsed) == stored

\* the comparator of getTripItems
ByStartDatetime(a, b) == DateDiff(a.start_datetime, b.start_datetime)

\* Array.prototype.sort with ByStartDatetime: a stable sort
RECURSIVE SortByStartDatetime(_)
SortByStartDatetime(s) ==
    IF s = <<>> THEN <<>>
    ELSE LET init == SortByStartDatetime(SubSeq(s, 1, Len(s) - 1))
             x    == s[Len(s)]
             k    == Cardinality({i \in 1..Len(init) : ByStartDatetime(init[i], x) <= 0})
         IN  SubSeq(init, 1, k) \o <<x>> \o SubSeq(init, k + 1, Len(init))

\* Array.prototype.filter(item => item.trip_id === tripId)
ItemsOfTrip(items, tripId) ==
    LET Keep(item) == item.trip_id = tripId IN SelectSeq(items, Keep)

LocalStorageService_getTripItems(items, tripId) ==
    SortByStartDatetime(ItemsOfTrip(items, tripId))

\* Array.prototype.findIndex: 0 stands for -1
FindIndex(s, id) ==
    IF \E i \in 1..Len(s) : s[i].id = id
    THEN CHOOSE i \in 1..Len(s) : s[i].id = id /\ \A j \in 1..(i - 1) : s[j].id # id
    ELSE 0

\* <<>> when no trip has the id, else <<trip with its items attached>>
LocalStorageService_getTrip(ts, items, id) ==
    LET index == FindIndex(ts, id) IN
    IF index = 0 THEN <<>>
    ELSE <<[ts[index] EXCEPT !.items = LocalStorageService_getTripItems(items, id)]>>

----------------------------------------------------------------------------
(* LocalStorageService: writes.  Each operator takes the arrays read from  *)
(* the store and, for every setInStorage call the handler makes, whether   *)
(* the store has room left, and gives the arrays the store holds           *)
(* afterwards, the value returned, and whether a setInStorage call         *)
(* returned false.                                                         *)

\* the properties callers pass for a trip; Undef marks an absent property
TripDataKeys ==
    {"id", "title", "description", "start_date", "end_date", "status", "created_at",
     "updated_at"}

\* {} as trip data
EmptyTripData == [k \in TripDataKeys |-> Undef]

\* { ...base, ...over }: every property present in over replaces base's
Spread(base, over) ==
    [k \in DOMAIN base |->
        IF k \in DOMAIN over /\ over[k] # Undef THEN over[k] ELSE base[k]]

\* the length of a property in JSON.stringify's output: an absent property
\* is not written
PropertyLength(v) == IF v = Undef THEN 0 ELSE Len(v)

\* the length of JSON.stringify(record), up to punctuation, of an import
\* record, of a trip item and of a trip
RecordLength(r) ==
    IF "parsed_items_count" \in DOMAIN r
    THEN 1 + PropertyLength(r.id) + PropertyLength(r.type) + PropertyLength(r.content)
           + PropertyLength(r.parsed_items_count) + PropertyLength(r.confidence)
           + PropertyLength(r.status)
           + PropertyLength(r.created_at)
    ELSE IF "trip_id" \in DOMAIN r
    THEN 1 + PropertyLength(r.id) + PropertyLength(r.trip_id) + PropertyLength(r.title)
           + PropertyLength(r.item_type) + PropertyLength(r.start_datetime)
           + PropertyLength(r.end_datetime) + PropertyLength(r.sort_order)
           + PropertyLength(r.created_at) + PropertyLength(r.updated_at)
    ELSE 1 + PropertyLength(r.id) + PropertyLength(r.title) + PropertyLength(r.description)
           + PropertyLength(r.start_date) + PropertyLength(r.end_date)
           + PropertyLength(r.status)
           + PropertyLength(r.created_at) + PropertyLength(r.updated_at)

RECURSIVE JSONLength(_)
JSONLength(array) ==
    IF array = <<>> THEN 0 ELSE RecordLength(Head(array)) + JSONLength(Tail(array))

\* localStorage.setItem(key, JSON.stringify(data)) returns normally: always
\* while there is room, and with the quota exhausted (free = FALSE) only when
\* the new string is no longer than the one it replaces
WriteAccepted(old, data, free) == free \/ JSONLength(data) <= JSONLength(old)

\* setInStorage(key, data): the array the store holds afterwards, given
\* whether setItem returned normally; a QuotaExceededError is caught and
\* false returned
setInStorage(old, data, accepted) == IF accepted THEN data ELSE old

\* the object createTrip builds: { id: generateId(), ...tripData, items: [],
\* created_at, updated_at }
NewTrip(tripData, genId, now) ==
    [id          |-> IF HasOwn(tripData, "id") THEN tripData.id ELSE genId,
     title       |-> tripData.title,
     description |-> tripData.description,
     start_date  |-> tripData.start_date,
     end_date    |-> tripData.end_date,
     status      |-> tripData.status,
     items       |-> <<>>,
     created_at  |-> ISO(now),
     updated_at  |-> ISO(now)]

LocalStorageService_createTrip(ts, tripData, genId, now, free) ==
    LET newTrip == NewTrip(tripData, genId, now)
        pushed  == Append(ts, newTrip)
        written == WriteAccepted(ts, pushed, free)
    IN  [trips    |-> setInStorage(ts, pushed, written),
         value    |-> <<newTrip>>,
         rejected |-> ~written]

\* the object updateTrip stores: { ...trips[index], ...updateData, updated_at }
MergedTrip(trip, updateData, now) ==
    [Spread(trip, updateData) EXCEPT !.updated_at = ISO(now)]

\* value <<>> stands for the null returned when no trip has the id
LocalStorageService_updateTrip(ts, id, updateData, now, free) ==
    LET index == FindIndex(ts, id) IN
    IF index # 0
    THEN LET merged  == MergedTrip(ts[index], updateData, now)
             updated == [ts EXCEPT ![index] = merged]
             written == WriteAccepted(ts, updated, free)
         IN  [trips    |-> setInStorage(ts, updated, written),
              value    |-> <<merged>>,
              rejected |-> ~written]
    ELSE [trips |-> ts, value |-> <<>>, rejected |-> FALSE]

\* trips.filter(t => t.id !== id)
WithoutId(s, id) == LET Keep(r) == r.id # id IN SelectSeq(s, Keep)

\* the items array written back as it was read
WithoutTrip_kept(items, id) == items

\* tripItems.filter(item => item.trip_id !== id)
WithoutTrip(items, id) == LET Keep(item) == item.trip_id # id IN SelectSeq(items, Keep)

LocalStorageService_deleteTrip(ts, items, id, freeTrips, freeItems) ==
    LET filteredTrips == WithoutId(ts, id)
        filteredItems == WithoutTrip(items, id)
        writtenTrips  == WriteAccepted(ts, filteredTrips, freeTrips)
        writtenItems  == WriteAccepted(items, filteredItems, freeItems)
    IN  IF Len(filteredTrips) # Len(ts)
        THEN [trips     |-> setInStorage(ts, filteredTrips, writtenTrips),
              tripItems |-> setInStorage(items, filteredItems, writtenItems),
              value     |-> TRUE,
              rejected  |-> ~writtenTrips \/ ~writtenItems]
        ELSE [trips |-> ts, tripItems |-> items, value |-> FALSE, rejected |-> FALSE]

\* the properties callers pass for a trip item
ItemDataKeys == {"id", "trip_id", "title", "item_type", "start_datetime",
                 "end_datetime", "sort_order"}

\* the object createTripItem builds: { id: generateId(), ...itemData,
\* created_at, updated_at }
NewItem(itemData, genId, now) ==
    [id             |-> IF HasOwn(itemData, "id") THEN itemData.id ELSE genId,
     trip_id        |-> itemData.trip_id,
     title          |-> itemData.title,
     item_type      |-> itemData.item_type,
     start_datetime |-> itemData.start_datetime,
     end_datetime   |-> itemData.end_datetime,
     sort_order     |-> itemData.sort_order,
     created_at     |-> ISO(now),
     updated_at     |-> ISO(now)]

\* an item operation that leaves the owning trip alone
TouchTrip_skipped(ts, tripId, now, free) ==
    [trips |-> ts, value |-> <<>>, rejected |-> FALSE]

\* the updateTrip(trip_id, {}) that refreshes the owning trip's updated_at
TouchTrip(ts, tripId, now, free) ==
    LocalStorageService_updateTrip(ts, tripId, EmptyTripData, now, free)

LocalStorageService_createTripItem(ts, items, itemData, genId, now, freeItems, freeTrips) ==
    LET newItem == NewItem(itemData, genId, now)
        pushed  == Append(items, newItem)
        written == WriteAccepted(items, pushed, freeItems)
        touched == TouchTrip(ts, itemData.trip_id, now, freeTrips)
    IN  [trips     |-> touched.trips,
         tripItems |-> setInStorage(items, pushed, written),
         value     |-> <<newItem>>,
         rejected  |-> ~written \/ touched.rejected]

\* value <<>> stands for the null returned when no item has the id
LocalStorageService_updateTripItem(ts, items, id, updateData, now, freeItems, freeTrips) ==
    LET index == FindIndex(items, id) IN
    IF index # 0
    THEN LET merged  == [Spread(items[index], updateData) EXCEPT !.updated_at = ISO(now)]
             updated == [items EXCEPT ![index] = merged]
             written == WriteAccepted(items, updated, freeItems)
             touched == TouchTrip(ts, merged.trip_id, now, freeTrips)
         IN  [trips     |-> touched.trips,
              tripItems |-> setInStorage(items, updated, written),
              value     |-> <<merged>>,
              rejected  |-> ~written \/ touched.rejected]
    ELSE [trips |-> ts, tripItems |-> items, value |-> <<>>, rejected |-> FALSE]

LocalStorageService_deleteTripItem(ts, items, id, now, freeItems, freeTrips) ==
    LET index == FindIndex(items, id) IN
    IF index # 0
    THEN LET filtered == WithoutId(items, id)
             written  == WriteAccepted(items, filtered, freeItems)
             touched  == TouchTrip(ts, items[index].trip_id, now, freeTrips)
         IN  [trips     |-> touched.trips,
              tripItems |-> setInStorage(items, filtered, written),
              value     |-> TRUE,
              rejected  |-> ~written \/ touched.rejected]
    ELSE [trips |-> ts, tripItems |-> items, value |-> FALSE, rejected |-> FALSE]

\* exportData(): the value of every storage key, by name
LocalStorageService_exportData(ts, items) == [trips |-> ts, tripItems |-> items]

\* importData(data): setInStorage of every named value that is truthy (an
\* array is, empty or not)
LocalStorageService_importData(ts, items, data, freeTrips, freeItems) ==
    LET writtenTrips == WriteAccepted(ts, data.trips, freeTrips)
        writtenItems == WriteAccepted(items, data.tripItems, freeItems)
    IN  [trips     |-> setInStorage(ts, data.trips, writtenTrips),
         tripItems |-> setInStorage(items, data.tripItems, writtenItems),
         rejected  |-> ~writtenTrips \/ ~writtenItems]

----------------------------------------------------------------------------
(* TripManager: validation *)

\* isValidDate(dateStr)
isValidDate(dateStr) == DateValue(dateStr) # NaN

\* the title check: required on create, and whenever the data has a title
TitleErrors(tripData, isCreate) ==
    IF isCreate \/ HasOwn(tripData, "title")
    THEN IF Falsy(tripData.title) \/ StrLength(Trim(tripData.title)) = 0
         THEN <<"title">>
         ELSE IF StrLength(tripData.title) > TitleMaxLength THEN <<"title">> ELSE <<>>
    ELSE <<>>

\* the check of start_date or end_date (field): required on create, and
\* whenever the data has the field
DateErrors(tripData, isCreate, field) ==
    IF isCreate \/ HasOwn(tripData, field)
    THEN IF Falsy(tripData[field]) \/ ~isValidDate(tripData[field])
         THEN <<field>> ELSE <<>>
    ELSE <<>>

\* validation without the date logic check
DateOrderErrors_skipped(tripData) == <<>>

\* the date logic check: only when the data has both dates
DateOrderErrors(tripData) ==
    IF ~Falsy(tripData.start_date) /\ ~Falsy(tripData.end_date)
       /\ DateGreater(tripData.start_date, tripData.end_date)
    THEN <<"end_date">> ELSE <<>>

\* the status check: only when the data has a status
StatusErrors(tripData) ==
    IF HasOwn(tripData, "status") /\ tripData.status \notin StatusMapKeys
    THEN <<"status">> ELSE <<>>

\* the fields validateTripData cites, in the order it pushes them; <<>> when
\* it does not throw
validateTripData(tripData, isCreate) ==
    TitleErrors(tripData, isCreate)
        \o DateErrors(tripData, isCreate, "start_date")
        \o DateErrors(tripData, isCreate, "end_date")
        \o DateOrderErrors(tripData)
        \o StatusErrors(tripData)

\* the keys of TripManager's itemTypeMap
ItemTypeMapKeys == {"transport", "accommodation", "activity", "meal", "attraction", "other"}

isValidDateTime(dateTimeStr) == DateValue(dateTimeStr) # NaN

\* startTime >= endTime of two Date objects: false when either is an
\* Invalid Date
DateNotBefore(a, b) ==
    DateValue(a) # NaN /\ DateValue(b) # NaN /\ DateValue(a) >= DateValue(b)

\* the fields validateTripItemData cites, in the order it pushes them; <<>>
\* when it does not throw
validateTripItemData(itemData, isCreate) ==
    (IF (isCreate \/ HasOwn(itemData, "title"))
        /\ (Falsy(itemData.title) \/ StrLength(Trim(itemData.title)) = 0)
     THEN <<"title">> ELSE <<>>)
    \o (IF (isCreate \/ HasOwn(itemData, "item_type"))
           /\ (Falsy(itemData.item_type) \/ itemData.item_type \notin ItemTypeMapKeys)
        THEN <<"item_type">> ELSE <<>>)
    \o (IF (isCreate \/ HasOwn(itemData, "start_datetime"))
           /\ (Falsy(itemData.start_datetime) \/ ~isValidDateTime(itemData.start_datetime))
        THEN <<"start_datetime">> ELSE <<>>)
    \o (IF ~Falsy(itemData.start_datetime) /\ ~Falsy(itemData.end_datetime)
           /\ DateNotBefore(itemData.start_datetime, itemData.end_datetime)
        THEN <<"end_datetime">> ELSE <<>>)

----------------------------------------------------------------------------
(* TripManager: the items of the current trip *)

\* Number(item.sort_order) for the sort orders in use
SortOrderValue(v) == CASE v = "0" -> 0 [] v = "1" -> 1 [] v = "2" -> 2 [] v = "3" -> 3

\* the comparator of sortTripItems
BySortOrder(a, b) ==
    IF a.sort_order # Undef /\ b.sort_order # Undef
    THEN SortOrderValue(a.sort_order) - SortOrderValue(b.sort_order)
    ELSE DateDiff(a.start_datetime, b.start_datetime)

RECURSIVE StableSortBySortOrder(_)
StableSortBySortOrder(s) ==
    IF s = <<>> THEN <<>>
    ELSE LET init == StableSortBySortOrder(SubSeq(s, 1, Len(s) - 1))
             x    == s[Len(s)]
             k    == Cardinality({i \in 1..Len(init) : BySortOrder(init[i], x) <= 0})
         IN  SubSeq(init, 1, k) \o <<x>> \o SubSeq(init, k + 1, Len(init))

\* the rearrangements of a sequence
Rearrangements(s) ==
    {[i \in 1..Len(s) |-> s[p[i]]] :
        p \in {q \in [1..Len(s) -> 1..Len(s)] : \A i, j \in 1..Len(s) : i # j => q[i] # q[j]}}

\* the arrays trip.items.sort(BySortOrder) can leave: the stable sort when
\* the comparator orders the items consistently, and an order the engine
\* chooses when it does not (items with and without a sort_order)
sortTripItems(items) ==
    IF \A i, j, k \in 1..Len(items) :
            BySortOrder(items[i], items[j]) <= 0 /\ BySortOrder(items[j], items[k]) <= 0
                => BySortOrder(items[i], items[k]) <= 0
    THEN {StableSortBySortOrder(items)}
    ELSE Rearrangements(items)

\* itemOrders.forEach(order => { item = items.find(i => i.id === order.id);
\* if (item) item.sort_order = order.sort_order })
RECURSIVE ApplyItemOrders(_, _)
ApplyItemOrders(items, itemOrders) ==
    IF itemOrders = <<>> THEN items
    ELSE LET order == Head(itemOrders)
             index == FindIndex(items, order.id)
         IN  ApplyItemOrders(
                IF index # 0
                THEN [items EXCEPT ![index].sort_order = order.sort_order]
                ELSE items,
                Tail(itemOrders))

----------------------------------------------------------------------------
(* What the caller of the most recent operation saw *)

\* op: the handler; id: the trip or item id it was called with; outcome:
\* "return" or "throw"; error: the Error thrown; errors: error.errors, the
\* fields cited; value: <<record>> when a record was returned, <<>> for null;
\* flag: the boolean returned; rejected: TRUE when a setInStorage call of the
\* handler returned false
Outcome(op, id, outcome, error, errors, value, flag, rejected) ==
    [op |-> op, id |-> id, outcome |-> outcome, error |-> error, errors |-> errors,
     value |-> value, flag |-> flag, rejected |-> rejected]

Returned(op, id, value, flag, rejected) ==
    Outcome(op, id, "return", "", <<>>, value, flag, rejected)

Thrown(op, id, error, errors, rejected) ==
    Outcome(op, id, "throw", error, errors, <<>>, FALSE, rejected)

\* new Error('数据验证失败') carrying error.errors
ValidationFailed == "ValidationFailed"

\* new Error('行程不存在')
TripNotFound == "TripNotFound"

\* new Error('删除失败')
DeleteFailed == "DeleteFailed"

\* the Error authenticatedRequest throws, or new Error(response.message)
RequestFailed == "RequestFailed"

----------------------------------------------------------------------------
(* StorageManager: the repository behind the global `storage`, which keeps *)
(* its trips under the same localStorage key 'travel_planner_trips'        *)

\* obj[key] of a parsed record: undefined when the record has no such
\* property
Get(obj, key) == IF key \in DOMAIN obj THEN obj[key] ELSE Undef

\* value || fallback
OrElse(value, fallback) == IF Falsy(value) THEN fallback ELSE value

\* the object addTrip builds
AddedTrip(tripData, genId, now) ==
    [id          |-> genId,
     title       |-> OrElse(tripData.title, ""),
     destination |-> OrElse(tripData.destination, ""),
     startDate   |-> OrElse(tripData.startDate, ""),
     endDate     |-> OrElse(tripData.endDate, ""),
     status      |-> OrElse(tripData.status, "planning"),
     description |-> OrElse(tripData.description, ""),
     coordinates |-> OrElse(tripData.coordinates, "null"),
     createdAt   |-> ISO(now),
     updatedAt   |-> ISO(now)]

\* saveTrips(trips) after a push: the string grows, so setItem returns
\* normally exactly while there is room; value <<>> stands for null
StorageManager_addTrip(ts, tripData, genId, now, free) ==
    LET newTrip == AddedTrip(tripData, genId, now) IN
    IF free
    THEN [trips |-> Append(ts, newTrip), value |-> <<newTrip>>, rejected |-> FALSE]
    ELSE [trips |-> ts, value |-> <<>>, rejected |-> TRUE]

\* trips.forEach(trip => { if (stats.hasOwnProperty(trip.status))
\* stats[trip.status]++ })
RECURSIVE CountStatuses(_, _)
CountStatuses(ts, stats) ==
    IF ts = <<>> THEN stats
    ELSE LET status == Get(Head(ts), "status") IN
         CountStatuses(Tail(ts),
                       IF status \in DOMAIN stats
                       THEN [stats EXCEPT ![status] = @ + 1]
                       ELSE stats)

StorageManager_getStatistics(ts) ==
    CountStatuses(ts, [total |-> Len(ts), planning |-> 0, completed |-> 0, cancelled |-> 0])

\* String.prototype.toLowerCase for the strings in use
ToLowerCase(s) ==
    CASE s = "Tokyo Trip"    -> "tokyo trip"
      [] s = "Paris Trip"    -> "paris trip"
      [] s = "Tokyo layover" -> "tokyo layover"
      [] s = "Tokyo"         -> "tokyo"
      [] s = "TOKYO"         -> "tokyo"
      [] OTHER               -> s

\* String.prototype.includes for the lower-case strings in use
Includes(s, searchTerm) ==
    \/ searchTerm = ""
    \/ s = searchTerm
    \/ <<s, searchTerm>> \in {<<"tokyo trip", "tokyo">>, <<"tokyo layover", "tokyo">>,
                              <<"paris trip", "paris">>}

\* new TypeError("Cannot read properties of undefined (reading 'toLowerCase')")
TypeError == "TypeError"

\* trip[key].toLowerCase().includes(searchTerm): "raise" when the trip has no
\* such property
PropertyIncludes(trip, key, searchTerm) ==
    IF Get(trip, key) = Undef THEN "raise"
    ELSE IF Includes(ToLowerCase(Get(trip, key)), searchTerm) THEN "true" ELSE "false"

\* the predicate searchTrips filters with: a || b || c evaluates b only when
\* a is false, and c only when b is false too
SearchTripsMatch(trip, searchTerm) ==
    LET title == PropertyIncludes(trip, "title", searchTerm)
        destination == PropertyIncludes(trip, "destination", searchTerm)
    IN  IF title # "false" THEN title
        ELSE IF destination # "false" THEN destination
        ELSE PropertyIncludes(trip, "description", searchTerm)

\* value is the array returned; raised tells that the predicate threw
StorageManager_searchTrips(ts, keyword) ==
    IF Falsy(keyword) \/ Trim(keyword) = ""
    THEN [value |-> ts, raised |-> FALSE]
    ELSE LET searchTerm == Trim(ToLowerCase(keyword))
             Keep(trip) == SearchTripsMatch(trip, searchTerm) = "true"
         IN  IF \E i \in 1..Len(ts) : SearchTripsMatch(ts[i], searchTerm) = "raise"
             THEN [value |-> <<>>, raised |-> TRUE]
             ELSE [value |-> SelectSeq(ts, Keep), raised |-> FALSE]

Call_searchTrips(keyword) ==
    LET r == StorageManager_searchTrips(trips, keyword) IN
    /\ last' = IF r.raised
               THEN Thrown("searchTrips", keyword, TypeError, <<>>, FALSE)
               ELSE Returned("searchTrips", keyword, r.value, FALSE, FALSE)
    /\ UNCHANGED <<trips, tripItems, clock, nextId, currentTrip, exported, tabs,
                   managerFilters, notifier, session, importHistory>>

----------------------------------------------------------------------------
(* LocalStorageService.getTrips, which TripManager.loadTrips calls with    *)
(* its status, sort and search filters                                     *)

\* the comparator getTrips sorts with; 0 when filters.sort names no case of
\* the switch
TripsComparator(sort, a, b) ==
    CASE sort = "start_date_desc" -> DateDiff(Get(b, "start_date"), Get(a, "start_date"))
      [] sort = "start_date_asc"  -> DateDiff(Get(a, "start_date"), Get(b, "start_date"))
      [] sort = "created_desc"    -> DateDiff(Get(b, "created_at"), Get(a, "created_at"))
      [] sort = "updated_desc"    -> DateDiff(Get(b, "updated_at"), Get(a, "updated_at"))
      [] OTHER                    -> 0

\* Array.prototype.sort with TripsComparator: a stable sort
RECURSIVE SortTrips(_, _)
SortTrips(s, sort) ==
    IF s = <<>> THEN <<>>
    ELSE LET init == SortTrips(SubSeq(s, 1, Len(s) - 1), sort)
             x    == s[Len(s)]
             k    == Cardinality({i \in 1..Len(init) : TripsComparator(sort, init[i], x) <= 0})
         IN  SubSeq(init, 1, k) \o <<x>> \o SubSeq(init, k + 1, Len(init))

\* the predicate getTrips filters with: the description is read only when
\* the title does not match, and only when it is truthy
GetTripsMatch(trip, searchTerm) ==
    LET title == PropertyIncludes(trip, "title", searchTerm) IN
    IF title # "false" THEN title
    ELSE IF Falsy(Get(trip, "description")) THEN "false"
    ELSE PropertyIncludes(trip, "description", searchTerm)

\* value is the array returned, raised tells that the search predicate
\* threw, and parsed is the array getFromStorage returned as the call leaves
\* it: filter builds a new array, sort orders the array it is called on
LocalStorageService_getTrips(ts, filters) ==
    LET HasStatus(trip) == Get(trip, "status") = filters.status
        filtered == ~Falsy(filters.status) /\ filters.status # "all"
        byStatus == IF filtered THEN SelectSeq(ts, HasStatus) ELSE ts
        sorted == IF ~Falsy(filters.sort) THEN SortTrips(byStatus, filters.sort) ELSE byStatus
        searchTerm == ToLowerCase(filters.search)
        Keep(trip) == GetTripsMatch(trip, searchTerm) = "true"
        parsed == IF filtered THEN ts ELSE sorted
    IN  IF Falsy(filters.search) THEN [value |-> sorted, raised |-> FALSE, parsed |-> parsed]
        ELSE IF \E i \in 1..Len(sorted) : GetTripsMatch(sorted[i], searchTerm) = "raise"
        THEN [value |-> <<>>, raised |-> TRUE, parsed |-> parsed]
        ELSE [value |-> SelectSeq(sorted, Keep), raised |-> FALSE, parsed |-> parsed]

Call_getTrips(filters) ==
    LET r == LocalStorageService_getTrips(trips, filters) IN
    /\ last' = IF r.raised
               THEN Thrown("getTrips", filters.search, TypeError, <<>>, FALSE)
               ELSE Returned("getTrips", filters.search, r.value, FALSE, FALSE)
    /\ trips' = DiscardParsed(trips, r.parsed)
    /\ UNCHANGED <<tripItems, clock, nextId, currentTrip, exported, tabs,
                   managerFilters, notifier, session, importHistory>>

\* a || b of two filter values
FilterOr(a, b) == IF Falsy(a) THEN b ELSE a

\* the filters loadTrips passes to getTrips
LoadFilters(options, current) ==
    [status |-> FilterOr(options.status, current.status),
     sort   |-> FilterOr(options.sort, current.sort),
     search |-> FilterOr(options.search, current.search)]

\* this.filters after loadTrips(options)
UpdatedFilters(options, current) ==
    [status |-> IF ~Falsy(options.status) THEN options.status ELSE current.status,
     sort   |-> IF ~Falsy(options.sort) THEN options.sort ELSE current.sort,
     search |-> IF options.search # Undef THEN options.search ELSE current.search]

TripManager_loadTrips(options) ==
    LET r == LocalStorageService_getTrips(trips, LoadFilters(options, managerFilters)) IN
    /\ IF r.raised
       THEN /\ last' = Thrown("loadTrips", Undef, TypeError, <<>>, FALSE)
            /\ managerFilters' = managerFilters
       ELSE /\ last' = Returned("loadTrips", Undef, r.value, FALSE, FALSE)
            /\ managerFilters' = UpdatedFilters(options, managerFilters)
    /\ trips' = DiscardParsed(trips, r.parsed)
    /\ UNCHANGED <<tripItems, clock, nextId, currentTrip, exported, tabs,
                   notifier, session, importHistory>>

----------------------------------------------------------------------------
(* StorageManager: writes and statistics *)

Call_addTrip(tripData, free) ==
    LET r == StorageManager_addTrip(trips, tripData, GenId(nextId), clock, free) IN
    /\ trips' = r.trips
    /\ last' = Returned("addTrip", Undef, r.value, FALSE, r.rejected)
    /\ nextId' = nextId + 1
    /\ UNCHANGED <<tripItems, clock, currentTrip, exported, tabs,
                   managerFilters, notifier, session, importHistory>>

Call_getStatistics ==
    /\ last' = Returned("getStatistics", Undef, <<StorageManager_getStatistics(trips)>>,
                        FALSE, FALSE)
    /\ UNCHANGED <<trips, tripItems, clock, nextId, currentTrip, exported, tabs,
                   managerFilters, notifier, session, importHistory>>

----------------------------------------------------------------------------
(* TripManager: trip operations *)

TripManager_createTrip(tripData, free) ==
    LET errors == validateTripData(tripData, TRUE) IN
    IF errors # <<>>
    THEN /\ last' = Thrown("createTrip", Undef, ValidationFailed, errors, FALSE)
         /\ UNCHANGED <<trips, tripItems, clock, nextId, currentTrip, exported, tabs,
                        managerFilters, notifier, session, importHistory>>
    ELSE LET r == LocalStorageService_createTrip(trips, tripData, GenId(nextId), clock, free) IN
         /\ trips' = r.trips
         /\ last' = Returned("createTrip", Undef, r.value, FALSE, r.rejected)
         /\ nextId' = nextId + 1
         /\ UNCHANGED <<tripItems, clock, currentTrip, exported, tabs,
                        managerFilters, notifier, session, importHistory>>

TripManager_updateTrip(tripId, tripData, free) ==
    LET errors == validateTripData(tripData, FALSE) IN
    IF errors # <<>>
    THEN /\ last' = Thrown("updateTrip", tripId, ValidationFailed, errors, FALSE)
         /\ UNCHANGED <<trips, tripItems, clock, nextId, currentTrip, exported, tabs,
                        managerFilters, notifier, session, importHistory>>
    ELSE LET r == LocalStorageService_updateTrip(trips, tripId, tripData, clock, free) IN
         /\ trips' = r.trips
         /\ IF r.value # <<>>
            THEN /\ currentTrip' =
                        IF currentTrip # <<>> /\ currentTrip[1].id = tripId
                        THEN r.value ELSE currentTrip
                 /\ last' = Returned("updateTrip", tripId, r.value, FALSE, r.rejected)
            ELSE /\ currentTrip' = currentTrip
                 /\ last' = Thrown("updateTrip", tripId, TripNotFound, <<>>, r.rejected)
         /\ UNCHANGED <<tripItems, clock, nextId, exported, tabs,
                        managerFilters, notifier, session, importHistory>>

TripManager_deleteTrip(tripId, freeTrips, freeItems) ==
    LET r == LocalStorageService_deleteTrip(trips, tripItems, tripId, freeTrips, freeItems) IN
    /\ trips' = r.trips
    /\ tripItems' = r.tripItems
    /\ IF r.value
       THEN /\ currentTrip' =
                   IF currentTrip # <<>> /\ currentTrip[1].id = tripId
                   THEN <<>> ELSE currentTrip
            /\ last' = Returned("deleteTrip", tripId, <<>>, TRUE, r.rejected)
       ELSE /\ currentTrip' = currentTrip
            /\ last' = Thrown("deleteTrip", tripId, DeleteFailed, <<>>, r.rejected)
    /\ UNCHANGED <<clock, nextId, exported, tabs,
                   managerFilters, notifier, session, importHistory>>

TripManager_getTripById(tripId) ==
    LET trip == LocalStorageService_getTrip(trips, tripItems, tripId) IN
    /\ IF trip # <<>>
       THEN /\ currentTrip' = trip
            /\ last' = Returned("getTripById", tripId, trip, FALSE, FALSE)
       ELSE /\ currentTrip' = currentTrip
            /\ last' = Thrown("getTripById", tripId, TripNotFound, <<>>, FALSE)
    /\ trips' = DiscardParsed(trips, IF trip # <<>>
                                     THEN [trips EXCEPT ![FindIndex(trips, tripId)] = trip[1]]
                                     ELSE trips)
    /\ UNCHANGED <<tripItems, clock, nextId, exported, tabs,
                   managerFilters, notifier, session, importHistory>>

\* The handler touches no state before its await; this is the step that
\* resumes it with the endpoint's reply (success: response.success; a
\* rejected request throws like an unsuccessful one).
TripManager_reorderTripItems(tripId, itemOrders, success) ==
    IF ~success
    THEN /\ last' = Thrown("reorderTripItems", tripId, RequestFailed, <<>>, FALSE)
         /\ UNCHANGED <<trips, tripItems, clock, nextId, currentTrip, exported, tabs,
                        managerFilters, notifier, session, importHistory>>
    ELSE /\ IF currentTrip # <<>> /\ currentTrip[1].id = tripId
            THEN \E sorted \in sortTripItems(ApplyItemOrders(currentTrip[1].items, itemOrders)) :
                    currentTrip' = <<[currentTrip[1] EXCEPT !.items = sorted]>>
            ELSE currentTrip' = currentTrip
         /\ last' = Returned("reorderTripItems", tripId, <<>>, TRUE, FALSE)
         /\ UNCHANGED <<trips, tripItems, clock, nextId, exported, tabs,
                        managerFilters, notifier, session, importHistory>>

----------------------------------------------------------------------------
(* LocalStorageService: trip-item operations, called on the global         *)
(* localStorageService (ImportManager.confirmImport calls createTripItem)  *)

Call_getTripItems(tripId) ==
    /\ last' = Returned("getTripItems", tripId,
                        LocalStorageService_getTripItems(tripItems, tripId), FALSE, FALSE)
    /\ tripItems' = DiscardParsed(tripItems, tripItems)
    /\ UNCHANGED <<trips, clock, nextId, currentTrip, exported, tabs,
                   managerFilters, notifier, session, importHistory>>

Call_createTripItem(itemData, freeItems, freeTrips) ==
    LET r == LocalStorageService_createTripItem(trips, tripItems, itemData,
                                                GenId(nextId), clock, freeItems, freeTrips) IN
    /\ trips' = r.trips
    /\ tripItems' = r.tripItems
    /\ last' = Returned("createTripItem", itemData.trip_id, r.value, FALSE, r.rejected)
    /\ nextId' = nextId + 1
    /\ UNCHANGED <<clock, currentTrip, exported, tabs,
                   managerFilters, notifier, session, importHistory>>

Call_updateTripItem(id, updateData, freeItems, freeTrips) ==
    LET r == LocalStorageService_updateTripItem(trips, tripItems, id, updateData,
                                                clock, freeItems, freeTrips) IN
    /\ trips' = r.trips
    /\ tripItems' = r.tripItems
    /\ last' = Returned("updateTripItem", id, r.value, FALSE, r.rejected)
    /\ UNCHANGED <<clock, nextId, currentTrip, exported, tabs,
                   managerFilters, notifier, session, importHistory>>

Call_deleteTripItem(id, freeItems, freeTrips) ==
    LET r == LocalStorageService_deleteTripItem(trips, tripItems, id, clock, freeItems, freeTrips) IN
    /\ trips' = r.trips
    /\ tripItems' = r.tripItems
    /\ last' = Returned("deleteTripItem", id, <<>>, r.value, r.rejected)
    /\ UNCHANGED <<clock, nextId, currentTrip, exported, tabs,
                   managerFilters, notifier, session, importHistory>>

Call_exportData ==
    /\ exported' = <<LocalStorageService_exportData(trips, tripItems)>>
    /\ last' = Returned("exportData", Undef, <<>>, FALSE, FALSE)
    /\ UNCHANGED <<trips, tripItems, clock, nextId, currentTrip, tabs,
                   managerFilters, notifier, session, importHistory>>

\* importData of an object exportData returned earlier
Call_importData(freeTrips, freeItems) ==
    /\ exported # <<>>
    /\ LET r == LocalStorageService_importData(trips, tripItems, exported[1],
                                               freeTrips, freeItems) IN
       /\ trips' = r.trips
       /\ tripItems' = r.tripItems
       /\ last' = Returned("importData", Undef, <<>>, FALSE, r.rejected)
    /\ UNCHANGED <<clock, nextId, currentTrip, exported, tabs,
                   managerFilters, notifier, session, importHistory>>

\* time passes between two operations
Tick ==
    /\ clock < MaxClock
    /\ clock' = clock + 1
    /\ UNCHANGED <<trips, tripItems, nextId, currentTrip, last, exported, tabs,
                   managerFilters, notifier, session, importHistory>>

----------------------------------------------------------------------------
(* LocalStorageService called from two tabs of one origin.  Within a tab a *)
(* call runs to completion, but nothing orders the getItem and setItem     *)
(* calls of one tab against those of the other, so each of them is a step. *)
(* The store has room.                                                     *)

\* the browser tabs that share the store
Tabs == {1, 2}

\* a tab with no LocalStorageService call in progress: pc is the statement
\* the call has reached, id and item its arguments, local the array it read,
\* value what its last completed call returned
IdleTab ==
    [pc |-> "idle", id |-> Undef, item |-> <<>>, local |-> <<>>, value |-> <<>>,
     flag |-> FALSE]

\* a write that merges what the store holds with what the tab adds
WriteBack_merged(stored, local) ==
    LET Added(r) == \A i \in 1..Len(stored) : stored[i].id # r.id
    IN  stored \o SelectSeq(local, Added)

\* this.setInStorage(key, array) of the array the tab read and changed
WriteBack(stored, local) == setInStorage(stored, local, TRUE)

\* createTripItem: getFromStorage(tripItems), build the item, push it
Tab_createTripItem_getItems(t, itemData) ==
    /\ tabs[t].pc = "idle"
    /\ LET newItem == NewItem(itemData, GenId(nextId), clock) IN
       tabs' = [tabs EXCEPT ![t] =
                    [pc |-> "createTripItem:setItems", id |-> itemData.trip_id,
                     item |-> <<newItem>>, local |-> Append(tripItems, newItem),
                     value |-> <<>>, flag |-> FALSE]]
    /\ nextId' = nextId + 1
    /\ UNCHANGED <<trips, tripItems, clock, currentTrip, last, exported,
                   managerFilters, notifier, session, importHistory>>

\* createTripItem: setInStorage(tripItems)
Tab_createTripItem_setItems(t) ==
    /\ tabs[t].pc = "createTripItem:setItems"
    /\ tripItems' = WriteBack(tripItems, tabs[t].local)
    /\ tabs' = [tabs EXCEPT ![t].pc = "createTripItem:getTrips", ![t].local = <<>>]
    /\ UNCHANGED <<trips, clock, nextId, currentTrip, last, exported,
                   managerFilters, notifier, session, importHistory>>

\* createTripItem: updateTrip(trip_id, {}) reads the trips and sets
\* updated_at on the one found; with none found, createTripItem returns
Tab_createTripItem_getTrips(t) ==
    /\ tabs[t].pc = "createTripItem:getTrips"
    /\ LET index == FindIndex(trips, tabs[t].id) IN
       tabs' = [tabs EXCEPT ![t] =
                    IF index # 0
                    THEN [@ EXCEPT !.pc = "createTripItem:setTrips",
                                   !.local = [trips EXCEPT ![index] =
                                                MergedTrip(trips[index], EmptyTripData, clock)]]
                    ELSE [@ EXCEPT !.pc = "idle", !.value = tabs[t].item]]
    /\ UNCHANGED <<trips, tripItems, clock, nextId, currentTrip, last, exported,
                   managerFilters, notifier, session, importHistory>>

\* createTripItem: updateTrip's setInStorage(trips); createTripItem returns
Tab_createTripItem_setTrips(t) ==
    /\ tabs[t].pc = "createTripItem:setTrips"
    /\ trips' = WriteBack(trips, tabs[t].local)
    /\ tabs' = [tabs EXCEPT ![t].pc = "idle", ![t].local = <<>>, ![t].value = tabs[t].item]
    /\ UNCHANGED <<tripItems, clock, nextId, currentTrip, last, exported,
                   managerFilters, notifier, session, importHistory>>

\* deleteTrip: getFromStorage(trips) and filter; returns false when no trip
\* has the id
Tab_deleteTrip_getTrips(t, tripId) ==
    /\ tabs[t].pc = "idle"
    /\ LET filteredTrips == WithoutId(trips, tripId) IN
       tabs' = [tabs EXCEPT ![t] =
                    IF Len(filteredTrips) # Len(trips)
                    THEN [pc |-> "deleteTrip:setTrips", id |-> tripId, item |-> <<>>,
                          local |-> filteredTrips, value |-> <<>>, flag |-> FALSE]
                    ELSE [IdleTab EXCEPT !.id = tripId]]
    /\ UNCHANGED <<trips, tripItems, clock, nextId, currentTrip, last, exported,
                   managerFilters, notifier, session, importHistory>>

\* deleteTrip: setInStorage(trips)
Tab_deleteTrip_setTrips(t) ==
    /\ tabs[t].pc = "deleteTrip:setTrips"
    /\ trips' = WriteBack(trips, tabs[t].local)
    /\ tabs' = [tabs EXCEPT ![t].pc = "deleteTrip:getItems", ![t].local = <<>>]
    /\ UNCHANGED <<tripItems, clock, nextId, currentTrip, last, exported,
                   managerFilters, notifier, session, importHistory>>

\* deleteTrip: getFromStorage(tripItems) and filter
Tab_deleteTrip_getItems(t) ==
    /\ tabs[t].pc = "deleteTrip:getItems"
    /\ tabs' = [tabs EXCEPT ![t].pc = "deleteTrip:setItems",
                            ![t].local = WithoutTrip(tripItems, tabs[t].id)]
    /\ UNCHANGED <<trips, tripItems, clock, nextId, currentTrip, last, exported,
                   managerFilters, notifier, session, importHistory>>

\* deleteTrip: setInStorage(tripItems); returns true
Tab_deleteTrip_setItems(t) ==
    /\ tabs[t].pc = "deleteTrip:setItems"
    /\ tripItems' = WriteBack(tripItems, tabs[t].local)
    /\ tabs' = [tabs EXCEPT ![t].pc = "idle", ![t].local = <<>>, ![t].flag = TRUE]
    /\ UNCHANGED <<trips, clock, nextId, currentTrip, last, exported,
                   managerFilters, notifier, session, importHistory>>

----------------------------------------------------------------------------
(* NotificationManager.  A reminder is executed by async functions, and    *)
(* each action below runs one of them from one await to the next.          *)
(* notifier holds                                                          *)
(*   reminders      this.reminders, by id ("absent": not in the array)     *)
(*   remote         the reminders the endpoint keeps                       *)
(*   checkInterval  whether this.checkInterval holds a running interval    *)
(*   retryTimeouts  this.retryTimeouts: id -> timer handle, 0 for no entry *)
(*   timers         the setTimeout timers neither fired nor cleared        *)
(*   calls          the executeReminder calls suspended at an await        *)
(*   attempts       by id, how many times executeReminder was started      *)
(*   stopped        stopChecking has returned, startChecking not since     *)

\* the notification methods executeReminder knows
AllMethods == {"browser", "push", "email"}

\* the reminder ids in use
ReminderIds == {"r1"}

\* the entry of a reminder the array does not hold
AbsentReminder ==
    [status |-> "absent", retry_count |-> 0, max_retries |-> 0, methods |-> {}]

\* the state after `new NotificationManager()`
NewNotifier ==
    [reminders     |-> [id \in ReminderIds |-> AbsentReminder],
     remote        |-> [id \in ReminderIds |-> AbsentReminder],
     checkInterval |-> FALSE,
     retryTimeouts |-> [id \in ReminderIds |-> 0],
     timers        |-> {},
     nextHandle    |-> 1,
     calls         |-> <<>>,
     attempts      |-> [id \in ReminderIds |-> 0],
     stopped       |-> FALSE]

\* reminder.max_retries || 3, with 0 standing for an unset max_retries too
DefaultMaxRetries == 3

MaxRetriesOf(max) == IF max = 0 THEN DefaultMaxRetries ELSE max

\* Math.pow(2, k)
RECURSIVE Pow2(_)
Pow2(k) == IF k = 0 THEN 1 ELSE 2 * Pow2(k - 1)

\* the cap of the retry delay, and the delay before the first retry, in ms
RetryDelayCap == 300000

RetryDelayBase == 60000

\* the delay without the cap
RetryDelay_uncapped(currentRetries) == Pow2(currentRetries) * RetryDelayBase

\* Math.min(300000, Math.pow(2, currentRetries) * 60000)
RetryDelay(currentRetries) ==
    IF Pow2(currentRetries) * RetryDelayBase < RetryDelayCap
    THEN Pow2(currentRetries) * RetryDelayBase
    ELSE RetryDelayCap

\* s without its i-th element
RemoveAt(s, i) == SubSeq(s, 1, i - 1) \o SubSeq(s, i + 1, Len(s))

\* the fields of the reminder object a call holds: those of the array's
\* record while the call's object is still the one in this.reminders, else
\* those the object had when it left the array (or was copied)
HeldReminder(n, c) ==
    IF c.live THEN n.reminders[c.rid]
    ELSE [status |-> "pending", retry_count |-> c.rc, max_retries |-> c.max,
          methods |-> c.methods]

\* the calls once this.reminders has been replaced: every call keeps the
\* object it was given, which the array no longer holds
Snapshot(n, c) ==
    LET held == HeldReminder(n, c) IN
    [c EXCEPT !.live = FALSE, !.rc = held.retry_count, !.max = held.max_retries,
              !.methods = held.methods]

Detached(n) ==
    [i \in 1..Len(n.calls) |->
        [Snapshot(n, n.calls[i]) EXCEPT
            !.todo = [j \in 1..Len(n.calls[i].todo) |-> Snapshot(n, n.calls[i].todo[j])]]]

\* a reminder object of this.reminders, as checkPendingReminders holds it
LiveReminder(rid) ==
    [rid |-> rid, live |-> TRUE, rc |-> 0, max |-> 0, methods |-> {}]

\* the call record of executeReminder(reminder) suspended at
\* Promise.allSettled; todo lists the reminders checkPendingReminders has
\* still to execute after this one, and looped tells that it made the call
ExecuteCall(reminder, todo, looped) ==
    [pc |-> "send", rid |-> reminder.rid, live |-> reminder.live, rc |-> reminder.rc,
     max |-> reminder.max, methods |-> reminder.methods, k |-> 0,
     delivered |-> FALSE, caught |-> FALSE, todo |-> todo, looped |-> looped]

\* notifier after executeReminder(reminder) has been called and has reached
\* its first await
Started(n, reminder, todo, looped) ==
    [n EXCEPT !.calls = Append(@, ExecuteCall(reminder, todo, looped)),
              !.attempts[reminder.rid] = @ + 1]

\* the call after retryReminder(reminder) has run up to its await: it reads
\* retry_count and max_retries from the object it was given
EnteredRetry(n, c, caught) ==
    LET held == HeldReminder(n, c) IN
    [c EXCEPT !.pc = IF held.retry_count < MaxRetriesOf(held.max_retries)
                     THEN "retryPatch" ELSE "failPatch",
              !.k = held.retry_count,
              !.caught = caught]

\* updateReminderStatus after a reply with success: the endpoint's record
\* and the record found in this.reminders, if any, take the status and the
\* additional data
\* additional data; additional is <<>> for {} and <<n>> for {retry_count: n}
Patched(n, rid, status, additional) ==
    LET Apply(r) ==
            IF r.status = "absent" THEN r
            ELSE [r EXCEPT !.status = status,
                           !.retry_count = IF additional = <<>> THEN @ ELSE additional[1]]
    IN  [n EXCEPT !.remote[rid] = Apply(@), !.reminders[rid] = Apply(@)]

\* the ids of the pending reminders of this.reminders, in the array's order
\* (every reminder in use is due)
RECURSIVE PendingReminders(_, _)
PendingReminders(n, ids) ==
    IF ids = {} THEN <<>>
    ELSE LET rid == CHOOSE id \in ids : \A other \in ids : id = "r1" \/ other # "r1" IN
         (IF n.reminders[rid].status = "pending" THEN <<LiveReminder(rid)>> ELSE <<>>)
             \o PendingReminders(n, ids \ {rid})

\* notifier after checkPendingReminders() has run up to its first await
CheckedPending(n) ==
    LET pendingReminders == PendingReminders(n, ReminderIds) IN
    IF pendingReminders = <<>> THEN n
    ELSE Started(n, Head(pendingReminders), Tail(pendingReminders), TRUE)

\* notifier after the i-th call has returned (threw: has thrown): the loop
\* of checkPendingReminders goes on to its next reminder, unless the call
\* threw, which ends the loop in its catch
Finished(n, i, threw) ==
    LET c == n.calls[i]
        rest == [n EXCEPT !.calls = RemoveAt(@, i)]
    IN  IF c.looped /\ ~threw /\ c.todo # <<>>
        THEN Started(rest, Head(c.todo), Tail(c.todo), TRUE)
        ELSE rest

\* the replies of the endpoint to a request: success, success: false, and a
\* rejected request
Replies == {"ok", "refused", "rejected"}

\* a step of the notification manager: nothing else changes
NotifierStep(n) ==
    /\ notifier' = n
    /\ UNCHANGED <<trips, tripItems, clock, nextId, currentTrip, last, exported, tabs,
                   managerFilters, session, importHistory>>

\* createReminder resumed by a reply with success: the new reminder is
\* pushed
Notifier_createReminder(rid, reminderData) ==
    /\ notifier.remote[rid].status = "absent"
    /\ NotifierStep([notifier EXCEPT !.remote[rid] = reminderData,
                                     !.reminders[rid] = reminderData])

\* loadReminders resumed by a reply with success: this.reminders becomes
\* the array of the endpoint's pending reminders
Notifier_loadReminders ==
    NotifierStep([notifier EXCEPT
        !.reminders = [rid \in ReminderIds |->
                          IF notifier.remote[rid].status = "pending"
                          THEN notifier.remote[rid] ELSE AbsentReminder],
        !.calls = Detached(notifier)])

\* startChecking(), which the 'authenticated' handler calls
Notifier_startChecking ==
    NotifierStep(CheckedPending([notifier EXCEPT !.checkInterval = TRUE,
                                                 !.stopped = FALSE]))

\* the callback of the one-minute interval
Notifier_checkPendingReminders ==
    /\ notifier.checkInterval
    /\ NotifierStep(CheckedPending(notifier))

\* the 'logout' handler: stopChecking(), then clearReminders(), which empties
\* this.reminders and calls stopChecking() again
Notifier_stopChecking ==
    LET registered == {notifier.retryTimeouts[rid] : rid \in ReminderIds} IN
    NotifierStep([notifier EXCEPT
        !.checkInterval = FALSE,
        !.timers = {t \in @ : t.handle \notin registered},
        !.retryTimeouts = [rid \in ReminderIds |-> 0],
        !.reminders = [rid \in ReminderIds |-> AbsentReminder],
        !.calls = Detached(notifier),
        !.stopped = TRUE])

\* the callback of a retry timer: it deletes the entry of its reminder and
\* executes a copy of the reminder with the retry count it was set for
Notifier_retryTimeout(t) ==
    /\ t \in notifier.timers
    /\ NotifierStep(Started([notifier EXCEPT !.timers = @ \ {t},
                                             !.retryTimeouts[t.rid] = 0],
                            [rid |-> t.rid, live |-> FALSE, rc |-> t.rc, max |-> t.max,
                             methods |-> t.methods],
                            <<>>, FALSE))

\* executeReminder resumed after Promise.allSettled: delivered are the
\* listed methods whose promise was fulfilled; a method that is not listed
\* contributes Promise.resolve(), which is fulfilled
Notifier_executeReminder_settled(i, delivered) ==
    /\ i \in 1..Len(notifier.calls)
    /\ notifier.calls[i].pc = "send"
    /\ LET c == notifier.calls[i]
           held == HeldReminder(notifier, c)
           methods == IF held.methods = {} THEN {"browser"} ELSE held.methods
           hasSuccess == delivered # {} \/ AllMethods \ methods # {}
       IN  /\ delivered \subseteq methods
           /\ NotifierStep([notifier EXCEPT !.calls[i] =
                   IF hasSuccess
                   THEN [c EXCEPT !.pc = "markSent", !.delivered = delivered # {}]
                   ELSE EnteredRetry(notifier, c, FALSE)])

\* the catch of executeReminder, or the rejection of the call when the
\* throw came from the retryReminder the catch itself awaits
Caught(n, i) ==
    IF n.calls[i].caught THEN Finished(n, i, TRUE)
    ELSE [n EXCEPT !.calls[i] = EnteredRetry(n, n.calls[i], TRUE)]

\* executeReminder resumed after updateReminderStatus(id, 'sent')
Notifier_executeReminder_sent(i, reply) ==
    /\ i \in 1..Len(notifier.calls)
    /\ notifier.calls[i].pc = "markSent"
    /\ LET c == notifier.calls[i] IN
       NotifierStep(CASE reply = "ok" -> Finished(Patched(notifier, c.rid, "sent", <<>>), i, FALSE)
                      [] reply = "refused" -> Finished(notifier, i, FALSE)
                      [] reply = "rejected" ->
                            [notifier EXCEPT !.calls[i] = EnteredRetry(notifier, c, TRUE)])

\* retryReminder resumed after updateReminderStatus(id, 'pending',
\* {retry_count: currentRetries + 1}): it sets the retry timer
Notifier_retryReminder_pending(i, reply) ==
    /\ i \in 1..Len(notifier.calls)
    /\ notifier.calls[i].pc = "retryPatch"
    /\ LET c == notifier.calls[i]
           held == HeldReminder(notifier, c)
           patched == IF reply = "ok"
                      THEN Patched(notifier, c.rid, "pending", <<c.k + 1>>)
                      ELSE notifier
           timer == [handle |-> notifier.nextHandle, rid |-> c.rid, rc |-> c.k + 1,
                     max |-> held.max_retries, methods |-> held.methods,
                     delay |-> RetryDelay(c.k)]
       IN  NotifierStep(IF reply = "rejected" THEN Caught(notifier, i)
                        ELSE Finished([patched EXCEPT !.timers = @ \cup {timer},
                                                      !.retryTimeouts[c.rid] = timer.handle,
                                                      !.nextHandle = @ + 1],
                                      i, FALSE))

\* retryReminder resumed after updateReminderStatus(id, 'failed')
Notifier_retryReminder_failed(i, reply) ==
    /\ i \in 1..Len(notifier.calls)
    /\ notifier.calls[i].pc = "failPatch"
    /\ LET c == notifier.calls[i] IN
       NotifierStep(CASE reply = "ok" -> Finished(Patched(notifier, c.rid, "failed", <<>>), i, FALSE)
                      [] reply = "refused" -> Finished(notifier, i, FALSE)
                      [] reply = "rejected" -> Caught(notifier, i))


----------------------------------------------------------------------------
(* LocalStorageService: import history.  importHistory holds               *)
(*   records    the parsed value of the importHistory key                   *)
(*   rejected   the setItem calls on the key that threw so far              *)

\* the number of records addImportHistory keeps
MaxImportHistory == 50

\* the object addImportHistory builds: { id: generateId(), ...importData,
\* created_at }
NewImportRecord(importData, genId, now) ==
    [id                 |-> IF HasOwn(importData, "id") THEN importData.id ELSE genId,
     type               |-> importData.type,
     content            |-> importData.content,
     parsed_items_count |-> importData.parsed_items_count,
     confidence         |-> importData.confidence,
     status             |-> importData.status,
     created_at         |-> ISO(now)]

\* history.splice(0, history.length - 50) when history.length > 50
KeepLatest(history) ==
    IF Len(history) > MaxImportHistory
    THEN SubSeq(history, Len(history) - MaxImportHistory + 1, Len(history))
    ELSE history

LocalStorageService_addImportHistory(history, importData, genId, now, free) ==
    LET newRecord == NewImportRecord(importData, genId, now)
        kept      == KeepLatest(Append(history, newRecord))
        written   == WriteAccepted(history, kept, free)
    IN  [history  |-> setInStorage(history, kept, written),
         value    |-> <<newRecord>>,
         rejected |-> ~written]

Call_addImportHistory(importData, free) ==
    LET r == LocalStorageService_addImportHistory(importHistory.records, importData,
                                                  GenId(nextId), clock, free) IN
    /\ importHistory' = [records  |-> r.history,
                         rejected |-> importHistory.rejected + IF r.rejected THEN 1 ELSE 0]
    /\ last' = Returned("addImportHistory", Undef, r.value, FALSE, r.rejected)
    /\ nextId' = nextId + 1
    /\ UNCHANGED <<trips, tripItems, clock, currentTrip, exported, tabs,
                   managerFilters, notifier, session>>

\* getImportHistory()
Call_getImportHistory ==
    /\ last' = Returned("getImportHistory", Undef, importHistory.records, FALSE, FALSE)
    /\ UNCHANGED <<trips, tripItems, clock, nextId, currentTrip, exported, tabs,
                   managerFilters, notifier, session, importHistory>>

----------------------------------------------------------------------------
(* AuthManager.  session holds                                              *)
(*   isAuthenticated, currentUser, tokens   the fields of the same name     *)
(*   refreshTimer   TRUE while the interval of setupTokenRefresh is set     *)
(*   stored         the four localStorage keys of storageKeys               *)
(*   logouts        the logout() calls suspended at their request           *)
(*   refreshes      the refreshToken() calls suspended at their request     *)
(*   issued         the sessions and tokens issued so far                   *)

\* null, as the value of a token, of the user or of a storage key
Null == 0

NoTokens == [access_token |-> Null, refresh_token |-> Null]

\* null, as the value of the user: no id and no name
NoUser == [id |-> Null, name |-> ""]

\* the object after the field initialisers of the constructor, with the
\* localStorage of a first visit
BlankSession ==
    [isAuthenticated |-> FALSE, currentUser |-> NoUser, tokens |-> NoTokens,
     refreshTimer |-> FALSE,
     stored |-> [accessToken |-> Null, refreshToken |-> Null, user |-> NoUser],
     logouts |-> 0, refreshes |-> 0, issued |-> 0]

\* initAuthState: the session of localStorage is restored when both the
\* access token and the user are stored
initAuthState(a) ==
    IF a.stored.accessToken # Null /\ a.stored.user # NoUser
    THEN [a EXCEPT !.tokens = [access_token |-> a.stored.accessToken,
                               refresh_token |-> a.stored.refreshToken],
                   !.currentUser = a.stored.user,
                   !.isAuthenticated = TRUE]
    ELSE a

\* setupTokenRefresh
setupTokenRefresh(a) == [a EXCEPT !.refreshTimer = TRUE]

\* new AuthManager() on the localStorage a page load finds
NewAuthManager(stored) ==
    setupTokenRefresh(initAuthState([BlankSession EXCEPT !.stored = stored]))

\* saveAuthState
saveAuthState(a) ==
    LET tokensSaved ==
            IF a.tokens.access_token # Null
            THEN [a EXCEPT !.stored.accessToken = a.tokens.access_token,
                           !.stored.refreshToken = a.tokens.refresh_token]
            ELSE a
    IN  IF a.currentUser # NoUser
        THEN [tokensSaved EXCEPT !.stored.user = a.currentUser]
        ELSE tokensSaved

\* clearAuthState
clearAuthState(a) ==
    [a EXCEPT !.isAuthenticated = FALSE,
              !.currentUser = NoUser,
              !.tokens = NoTokens,
              !.stored = [accessToken |-> Null, refreshToken |-> Null, user |-> NoUser],
              !.refreshTimer = FALSE]

\* handleAuthSuccess with the user and the tokens login and register make
\* up: three generateId() values and the name
handleAuthSuccess(a, name) ==
    LET n == a.issued + 1 IN
    saveAuthState([a EXCEPT !.currentUser = [id |-> 3 * n - 2, name |-> name],
                            !.tokens = [access_token |-> 3 * n - 1, refresh_token |-> 3 * n],
                            !.isAuthenticated = TRUE,
                            !.issued = n])

\* a step of the authentication manager: nothing else changes
SessionStep(a) ==
    /\ session' = a
    /\ UNCHANGED <<trips, tripItems, clock, nextId, currentTrip, last, exported, tabs,
                   managerFilters, notifier, importHistory>>

\* the page is loaded again: the script constructs the manager anew and the
\* calls of the page before are gone
Auth_construct ==
    SessionStep([NewAuthManager(session.stored) EXCEPT !.issued = session.issued])

\* login(email, password); email is <<local part, domain>>, accepted is
\* whether email and password are given and the password has six characters
Auth_login(email, accepted) ==
    SessionStep(IF accepted THEN handleAuthSuccess(session, email[1]) ELSE session)

\* register(userData); accepted is whether email, password and username
\* pass the checks
Auth_register(username, accepted) ==
    SessionStep(IF accepted THEN handleAuthSuccess(session, username) ELSE session)

\* logout() up to its request, or to its end when there is no access token
Auth_logout ==
    SessionStep(IF session.tokens.access_token # Null
                THEN [session EXCEPT !.logouts = @ + 1]
                ELSE clearAuthState(session))

\* logout() resumed: the finally block runs whatever the reply was
Auth_logout_finally ==
    /\ session.logouts > 0
    /\ SessionStep(clearAuthState([session EXCEPT !.logouts = @ - 1]))

\* refreshToken() up to its request
refreshToken(a) ==
    IF a.tokens.refresh_token = Null THEN clearAuthState(a)
    ELSE [a EXCEPT !.refreshes = @ + 1]

\* the callback of the refresh interval; expiring is whether the token
\* expires within thirty minutes
Auth_refreshInterval(expiring) ==
    /\ session.refreshTimer
    /\ SessionStep(IF /\ session.isAuthenticated
                      /\ session.tokens.access_token # Null
                      /\ expiring
                   THEN refreshToken(session) ELSE session)

\* refreshToken() resumed by the reply to its request
Auth_refreshToken_reply(reply) ==
    /\ session.refreshes > 0
    /\ LET a == [session EXCEPT !.refreshes = @ - 1]
           n == a.issued + 1
       IN  SessionStep(IF reply = "ok"
                       THEN saveAuthState([a EXCEPT
                                !.tokens = [access_token |-> 3 * n - 1,
                                            refresh_token |-> 3 * n],
                                !.issued = n])
                       ELSE clearAuthState(a))

----------------------------------------------------------------------------
(* Inputs *)

TripData(id, title, description, start, end, status) ==
    [id |-> id, title |-> title, description |-> description, start_date |-> start,
     end_date |-> end, status |-> status, created_at |-> Undef, updated_at |-> Undef]

ItemData(id, tripId, start, sortOrder) ==
    [id |-> id, trip_id |-> tripId,
     title |-> IF tripId = Undef THEN Undef ELSE "Flight",
     item_type |-> IF tripId = Undef THEN Undef ELSE "transport",
     start_datetime |-> start, end_datetime |-> Undef, sort_order |-> sortOrder]

\* the trip data built from the given values of each property
TripInputs(ids, titles, starts, ends, statuses) ==
    {TripData(id, title, Undef, start, end, status) :
        id \in ids, title \in titles, start \in starts, end \in ends, status \in statuses}

\* the item data built from the given values of each property
ItemInputs(tripIds, starts, sortOrders) ==
    {ItemData(Undef, tripId, start, sortOrder) :
        tripId \in tripIds, start \in starts, sortOrder \in sortOrders}

\* whether the store has room left while a handler runs
Room == BOOLEAN

----------------------------------------------------------------------------
(* Specifications *)

\* the filters `new TripManager()` starts with
DefaultFilters == [status |-> "all", sort |-> "start_date_desc", search |-> ""]

NoOutcome == Outcome("none", Undef, "return", "", <<>>, <<>>, FALSE, FALSE)

\* the state after `new LocalStorageService()` and `new TripManager()` on an
\* empty localStorage
Init ==
    /\ trips = <<>>
    /\ tripItems = <<>>
    /\ clock = 0
    /\ nextId = 1
    /\ currentTrip = <<>>
    /\ last = NoOutcome
    /\ exported = <<>>
    /\ tabs = [t \in Tabs |-> IdleTab]
    /\ managerFilters = DefaultFilters
    /\ notifier = NewNotifier
    /\ session = NewAuthManager(BlankSession.stored)
    /\ importHistory = [records |-> <<>>, rejected |-> 0]

\* the ids of the stored trips
StoredTripIds == {trips[i].id : i \in 1..Len(trips)}

\* the ids a caller holds: those of the stored trips, those the stored items
\* refer to, the id of the trip just deleted, and an id of no record
TripIds ==
    StoredTripIds
        \cup {tripItems[i].trip_id : i \in 1..Len(tripItems)}
        \cup (IF last.op = "deleteTrip" THEN {last.id} ELSE {})
        \cup {ForeignId}

\* the ids of the stored items, and an id of no record
ItemIds == {tripItems[i].id : i \in 1..Len(tripItems)} \cup {ForeignId}

\* Spec: trips and items are created, updated and deleted on a store that
\* may run out of room at any write
Drafts == TripInputs({Undef}, {"Tokyo Trip"}, {"2024-05-01"}, {"2024-05-10"}, {Undef})

Partials == TripInputs({Undef}, {Undef, "Kyoto and Osaka"}, {Undef}, {Undef}, {Undef})

Items == ItemInputs(TripIds, {"2024-05-01"}, {Undef})

ItemPartials == ItemInputs({Undef}, {Undef, "2024-05-10"}, {Undef})

Next ==
    \/ \E tripData \in Drafts, free \in Room :
            nextId <= MaxIds /\ TripManager_createTrip(tripData, free)
    \/ \E tripId \in TripIds, tripData \in Partials, free \in Room :
            TripManager_updateTrip(tripId, tripData, free)
    \/ \E tripId \in TripIds, free \in Room :
            TripManager_deleteTrip(tripId, free, free)
    \/ \E itemData \in Items, free \in Room :
            nextId <= MaxIds /\ Call_createTripItem(itemData, free, free)
    \/ \E id \in ItemIds, updateData \in ItemPartials, free \in Room :
            Call_updateTripItem(id, updateData, free, free)
    \/ \E id \in ItemIds, free \in Room :
            Call_deleteTripItem(id, free, free)

Spec == Init /\ [][Next]_vars

----------------------------------------------------------------------------
(* SpecCarriedIds: the trip data callers pass may carry an id property, and *)
(* time passes between operations                                          *)

CarriedDrafts ==
    TripInputs({Undef} \cup TripIds, {"Tokyo Trip"}, {"2024-05-01"}, {"2024-05-10"}, {Undef})

CarriedPartials ==
    TripInputs({Undef} \cup TripIds, {Undef, "Kyoto and Osaka"}, {Undef}, {Undef}, {Undef})

NextCarriedIds ==
    \/ \E tripData \in CarriedDrafts, free \in Room :
            nextId <= MaxIdsCarried /\ TripManager_createTrip(tripData, free)
    \/ \E tripId \in TripIds, tripData \in CarriedPartials, free \in Room :
            TripManager_updateTrip(tripId, tripData, free)
    \/ \E tripId \in TripIds, free \in Room :
            TripManager_deleteTrip(tripId, free, free)
    \/ \E tripId \in TripIds :
            TripManager_getTripById(tripId)
    \/ Tick

SpecCarriedIds == Init /\ [][NextCarriedIds]_vars

----------------------------------------------------------------------------
(* SpecDates: trips are created and updated with a variety of titles and   *)
(* dates                                                                   *)

DateDrafts ==
    TripInputs({Undef}, {"Tokyo Trip", LongTitle}, {"2024-05-01", "2024-05-20"},
               {"2024-05-10", Undef}, {Undef})

DatePartials ==
    TripInputs({Undef}, {Undef}, {Undef, "2024-05-20"}, {Undef, "2024-05-01"},
               {Undef, "archived"})

NextDates ==
    \/ \E tripData \in DateDrafts, free \in Room :
            nextId <= MaxIdsDates /\ TripManager_createTrip(tripData, free)
    \/ \E tripId \in TripIds, tripData \in DatePartials, free \in Room :
            TripManager_updateTrip(tripId, tripData, free)
    \/ \E tripId \in TripIds, free \in Room :
            TripManager_deleteTrip(tripId, free, free)

SpecDates == Init /\ [][NextDates]_vars

----------------------------------------------------------------------------
(* SpecItems: items with a variety of start times and sort orders are      *)
(* stored, listed, loaded with their trip and reordered; the store has     *)
(* room                                                                    *)

SortedItems ==
    ItemInputs(TripIds, {"2024-05-01", "2024-05-10"}, {Undef, "0", "1", "2"})

\* the lists of one or two distinct item ids a caller passes to reorder
OrderedIdLists ==
    {<<a>> : a \in ItemIds}
        \cup {ids \in {<<a, b>> : a \in ItemIds, b \in ItemIds} : ids[1] # ids[2]}

\* the itemOrders of an ordered id list: each id with its position
ItemOrders(ids) ==
    [i \in 1..Len(ids) |-> [id |-> ids[i], sort_order |-> ToString(i - 1)]]

NextItems ==
    \/ \E tripData \in Drafts :
            nextId <= MaxIdsItems /\ TripManager_createTrip(tripData, TRUE)
    \/ \E itemData \in SortedItems :
            nextId <= MaxIdsItems /\ Call_createTripItem(itemData, TRUE, TRUE)
    \/ \E tripId \in TripIds :
            TripManager_getTripById(tripId)
    \/ \E tripId \in TripIds, ids \in OrderedIdLists, success \in BOOLEAN :
            TripManager_reorderTripItems(tripId, ItemOrders(ids), success)

SpecItems == Init /\ [][NextItems]_vars

----------------------------------------------------------------------------
(* SpecTouch: items are created, updated and deleted while time passes, on *)
(* a store that may run out of room at any write                           *)

TouchPartials ==
    ItemInputs({Undef} \cup StoredTripIds, {Undef, "2024-05-10"}, {Undef})

NextTouch ==
    \/ \E tripData \in Drafts, free \in Room :
            nextId <= MaxIdsTouch /\ TripManager_createTrip(tripData, free)
    \/ \E itemData \in Items, free \in Room :
            nextId <= MaxIdsTouch /\ Call_createTripItem(itemData, free, free)
    \/ \E id \in ItemIds, updateData \in TouchPartials, free \in Room :
            Call_updateTripItem(id, updateData, free, free)
    \/ \E id \in ItemIds, free \in Room :
            Call_deleteTripItem(id, free, free)
    \/ Tick

SpecTouch == Init /\ [][NextTouch]_vars

----------------------------------------------------------------------------
(* SpecItemDates: items with a start and an end are stored and updated     *)
(* with data that validateTripItemData accepts                             *)

\* the item data with an end that pass the create validation
DatedItems ==
    {itemData \in {[ItemData(Undef, tripId, start, Undef) EXCEPT !.end_datetime = end] :
                       tripId \in StoredTripIds,
                       start \in {"2024-05-10"},
                       end \in {Undef, "2024-05-01", "2024-05-10", "2024-05-20"}} :
        validateTripItemData(itemData, TRUE) = <<>>}

\* the partials that pass the update validation
DatedItemPartials ==
    {updateData \in {[ItemData(Undef, Undef, start, Undef) EXCEPT !.end_datetime = end] :
                         start \in {Undef, "2024-05-20"},
                         end \in {Undef, "2024-05-01", "2024-05-10"}} :
        validateTripItemData(updateData, FALSE) = <<>>}

NextItemDates ==
    \/ \E tripData \in Drafts :
            nextId <= MaxIdsItemDates /\ TripManager_createTrip(tripData, TRUE)
    \/ \E itemData \in DatedItems :
            nextId <= MaxIdsItemDates /\ Call_createTripItem(itemData, TRUE, TRUE)
    \/ \E id \in ItemIds, updateData \in DatedItemPartials :
            Call_updateTripItem(id, updateData, TRUE, TRUE)
    \/ \E id \in ItemIds :
            Call_deleteTripItem(id, TRUE, TRUE)
    \/ Tick

SpecItemDates == Init /\ [][NextItemDates]_vars

----------------------------------------------------------------------------
(* SpecQueries: trips are added through either repository and then counted *)
(* and searched                                                            *)

\* the trip data passed to storage.addTrip
AddedTripData(titles, destinations, statuses, descriptions) ==
    {[title |-> title, destination |-> destination, startDate |-> Undef,
      endDate |-> Undef, status |-> status, description |-> description,
      coordinates |-> Undef] :
        title \in titles, destination \in destinations, status \in statuses,
        description \in descriptions}

AddedDrafts ==
    AddedTripData({"Tokyo Trip", "Paris Trip"}, {Undef, "Tokyo"}, {Undef, "confirmed"},
                  {Undef, "Tokyo layover"})

QueryDrafts ==
    {[tripData EXCEPT !.description = description] :
        tripData \in TripInputs({Undef}, {"Tokyo Trip", "Paris Trip"}, {"2024-05-01"},
                                {"2024-05-10"}, {"planning"}),
        description \in {Undef, "Tokyo layover"}}

\* the search terms tried
Keywords == {Undef, "TOKYO", "paris"}

\* the filters passed to getTrips
Filters ==
    [status : {Undef, "all"}, sort : {Undef, "start_date_asc"}, search : Keywords]

NextQueries ==
    \/ \E tripData \in AddedDrafts, free \in Room :
            nextId <= MaxIdsQueries /\ Call_addTrip(tripData, free)
    \/ \E tripData \in QueryDrafts :
            nextId <= MaxIdsQueries /\ TripManager_createTrip(tripData, TRUE)
    \/ Call_getStatistics
    \/ \E keyword \in Keywords : Call_searchTrips(keyword)
    \/ \E filters \in Filters : Call_getTrips(filters)

SpecQueries == Init /\ [][NextQueries]_vars

----------------------------------------------------------------------------
(* SpecListing: trips with different dates and statuses are created and    *)
(* updated as time passes, and listed                                      *)

ListingDrafts ==
    TripInputs({Undef}, {"Tokyo Trip"}, {"2024-05-01", "2024-05-10"}, {"2024-05-20"},
               {"planning", "confirmed"})

\* the options passed to loadTrips
ListOptions ==
    [status : {Undef, "all", "confirmed"},
     sort   : {Undef, "start_date_desc", "start_date_asc", "created_desc", "updated_desc"},
     search : {Undef}]

NextListing ==
    \/ \E tripData \in ListingDrafts :
            nextId <= MaxIdsListing /\ TripManager_createTrip(tripData, TRUE)
    \/ \E tripId \in StoredTripIds, tripData \in Partials :
            TripManager_updateTrip(tripId, tripData, TRUE)
    \/ \E options \in ListOptions : TripManager_loadTrips(options)
    \/ \E f \in ListOptions : Call_getTrips(f)
    \/ Tick

SpecListing == Init /\ [][NextListing]_vars

----------------------------------------------------------------------------
(* SpecReads: trips and items are stored out of date order, and read       *)

ReadDrafts ==
    TripInputs({Undef}, {"Tokyo Trip"}, {"2024-05-01", "2024-05-10"}, {"2024-05-20"},
               {"planning", "confirmed"})

ReadItems == ItemInputs(StoredTripIds, {"2024-05-01", "2024-05-10"}, {Undef})

\* the filters passed to getTrips
ReadFilters ==
    [status : {Undef, "confirmed"}, sort : {Undef, "start_date_asc", "created_desc"},
     search : {Undef, "TOKYO"}]

NextReads ==
    \/ \E tripData \in ReadDrafts :
            nextId <= MaxIdsReads /\ TripManager_createTrip(tripData, TRUE)
    \/ \E itemData \in ReadItems :
            nextId <= MaxIdsReads /\ Call_createTripItem(itemData, TRUE, TRUE)
    \/ \E f \in ReadFilters : Call_getTrips(f)
    \/ \E tripId \in TripIds : TripManager_getTripById(tripId)
    \/ \E tripId \in TripIds : Call_getTripItems(tripId)
    \/ Call_getStatistics

SpecReads == Init /\ [][NextReads]_vars

----------------------------------------------------------------------------
(* SpecWritten: the trip and item operations of Spec on a store that       *)
(* always has room, so that every write succeeds                           *)

NextWritten ==
    \/ \E tripData \in Drafts :
            nextId <= MaxIdsWritten /\ TripManager_createTrip(tripData, TRUE)
    \/ \E tripId \in TripIds, tripData \in Partials :
            TripManager_updateTrip(tripId, tripData, TRUE)
    \/ \E tripId \in TripIds :
            TripManager_deleteTrip(tripId, TRUE, TRUE)
    \/ \E itemData \in Items :
            nextId <= MaxIdsWritten /\ Call_createTripItem(itemData, TRUE, TRUE)
    \/ \E id \in ItemIds, updateData \in ItemPartials :
            Call_updateTripItem(id, updateData, TRUE, TRUE)
    \/ \E id \in ItemIds :
            Call_deleteTripItem(id, TRUE, TRUE)

SpecWritten == Init /\ [][NextWritten]_vars

----------------------------------------------------------------------------
(* SpecReminders: reminders are created, loaded, checked every minute,     *)
(* executed, retried and stopped, in any order the event loop allows       *)

\* a pending reminder as the endpoint returns it
Reminder(maxRetries, methods) ==
    [status |-> "pending", retry_count |-> 0, max_retries |-> maxRetries,
     methods |-> methods]

ReminderInputs == {Reminder(maxRetries, methods) :
                      maxRetries \in {0, 1}, methods \in {{"browser"}, AllMethods}}

\* executeReminder has been started at most max times for each reminder
AttemptsWithin(max) == \A rid \in ReminderIds : notifier'.attempts[rid] <= max

NextReminders ==
    \/ \E rid \in ReminderIds, reminderData \in ReminderInputs :
            Notifier_createReminder(rid, reminderData)
    \/ Notifier_loadReminders
    \/ Notifier_checkPendingReminders /\ AttemptsWithin(MaxAttempts)
    \/ Notifier_startChecking /\ AttemptsWithin(MaxAttempts)
    \/ Notifier_stopChecking
    \/ \E t \in notifier.timers :
            Notifier_retryTimeout(t) /\ AttemptsWithin(MaxAttempts)
    \/ \E i \in 1..Len(notifier.calls), delivered \in SUBSET AllMethods :
            Notifier_executeReminder_settled(i, delivered)
    \/ \E i \in 1..Len(notifier.calls), reply \in Replies :
            Notifier_executeReminder_sent(i, reply) /\ AttemptsWithin(MaxAttempts)
    \/ \E i \in 1..Len(notifier.calls), reply \in Replies :
            Notifier_retryReminder_pending(i, reply) /\ AttemptsWithin(MaxAttempts)
    \/ \E i \in 1..Len(notifier.calls), reply \in Replies :
            Notifier_retryReminder_failed(i, reply) /\ AttemptsWithin(MaxAttempts)

SpecReminders == Init /\ [][NextReminders]_vars

----------------------------------------------------------------------------
(* SpecRetries: the reminders list every method, every delivery fails and  *)
(* every request to the endpoint succeeds                                  *)

FailingReminders == {Reminder(maxRetries, AllMethods) : maxRetries \in {0, 1}}

NextRetries ==
    \/ \E rid \in ReminderIds, reminderData \in FailingReminders :
            Notifier_createReminder(rid, reminderData)
    \/ Notifier_loadReminders
    \/ Notifier_checkPendingReminders /\ AttemptsWithin(MaxAttempts)
    \/ Notifier_startChecking /\ AttemptsWithin(MaxAttempts)
    \/ Notifier_stopChecking
    \/ \E t \in notifier.timers :
            Notifier_retryTimeout(t) /\ AttemptsWithin(MaxAttempts)
    \/ \E i \in 1..Len(notifier.calls) :
            Notifier_executeReminder_settled(i, {})
    \/ \E i \in 1..Len(notifier.calls) :
            Notifier_retryReminder_pending(i, "ok") /\ AttemptsWithin(MaxAttempts)
    \/ \E i \in 1..Len(notifier.calls) :
            Notifier_retryReminder_failed(i, "ok") /\ AttemptsWithin(MaxAttempts)

SpecRetries == Init /\ [][NextRetries]_vars

----------------------------------------------------------------------------
(* SpecBackoff: reminders that allow four or five retries, every delivery   *)
(* fails and every request to the endpoint succeeds                         *)

BackoffReminders == {Reminder(maxRetries, AllMethods) : maxRetries \in {4, 5}}

NextBackoff ==
    \/ \E rid \in ReminderIds, reminderData \in BackoffReminders :
            Notifier_createReminder(rid, reminderData)
    \/ Notifier_checkPendingReminders /\ AttemptsWithin(MaxAttemptsBackoff)
    \/ Notifier_startChecking /\ AttemptsWithin(MaxAttemptsBackoff)
    \/ Notifier_stopChecking
    \/ \E t \in notifier.timers :
            Notifier_retryTimeout(t) /\ AttemptsWithin(MaxAttemptsBackoff)
    \/ \E i \in 1..Len(notifier.calls) :
            Notifier_executeReminder_settled(i, {})
    \/ \E i \in 1..Len(notifier.calls) :
            Notifier_retryReminder_pending(i, "ok") /\ AttemptsWithin(MaxAttemptsBackoff)

SpecBackoff == Init /\ [][NextBackoff]_vars

----------------------------------------------------------------------------
(* SpecSession: the user logs in, registers and logs out, the refresh       *)
(* interval fires and the page is loaded again                              *)

Emails == {<<"ann", "example.com">>}

Usernames == {"Ann B"}

IssuedWithin(max) == session'.issued <= max

SuspendedWithin(max) == session'.logouts <= max /\ session'.refreshes <= max

NextSession ==
    \/ \E email \in Emails, accepted \in BOOLEAN :
            Auth_login(email, accepted) /\ IssuedWithin(MaxIssued)
    \/ \E username \in Usernames, accepted \in BOOLEAN :
            Auth_register(username, accepted) /\ IssuedWithin(MaxIssued)
    \/ Auth_logout /\ SuspendedWithin(MaxSuspended)
    \/ Auth_logout_finally
    \/ \E expiring \in BOOLEAN :
            Auth_refreshInterval(expiring) /\ SuspendedWithin(MaxSuspended)
    \/ \E reply \in Replies : Auth_refreshToken_reply(reply) /\ IssuedWithin(MaxIssued)
    \/ Auth_construct

SpecSession == Init /\ [][NextSession]_vars

----------------------------------------------------------------------------
(* SpecImports: texts are parsed one after the other, each adding a record  *)
(* to the import history, and the history is read                           *)

\* what ImportManager.parseText passes to addImportHistory
ImportData ==
    {[id |-> Undef, type |-> "text", content |-> "Flight to Tokyo...",
      parsed_items_count |-> "1", confidence |-> "0.8", status |-> "completed"]}

NextImports ==
    \/ \E importData \in ImportData, free \in BOOLEAN :
            /\ nextId <= MaxIdsImports
            /\ Call_addImportHistory(importData, free)
            /\ importHistory'.rejected <= MaxRejected
    \/ Call_getImportHistory

SpecImports == Init /\ [][NextImports]_vars

----------------------------------------------------------------------------
(* SpecTabs: two tabs create items and delete trips on the shared store    *)

NextTabs ==
    \/ \E tripData \in Drafts :
            nextId <= MaxIdsTabs /\ TripManager_createTrip(tripData, TRUE)
    \/ \E t \in Tabs, itemData \in Items :
            nextId <= MaxIdsTabs /\ Tab_createTripItem_getItems(t, itemData)
    \/ \E t \in Tabs : Tab_createTripItem_setItems(t)
    \/ \E t \in Tabs : Tab_createTripItem_getTrips(t)
    \/ \E t \in Tabs : Tab_createTripItem_setTrips(t)
    \/ \E t \in Tabs, tripId \in TripIds : Tab_deleteTrip_getTrips(t, tripId)
    \/ \E t \in Tabs : Tab_deleteTrip_setTrips(t)
    \/ \E t \in Tabs : Tab_deleteTrip_getItems(t)
    \/ \E t \in Tabs : Tab_deleteTrip_setItems(t)

SpecTabs == Init /\ [][NextTabs]_vars

----------------------------------------------------------------------------
(* SpecStamps: trips are created, updated with data that may carry         *)
(* created_at and updated_at, deleted, exported and imported while time    *)
(* passes; the store has room                                              *)

\* a timestamp a caller passes in trip data
CarriedStamp == ISO(MaxClock + 1)

StampPartials ==
    {[p EXCEPT !.created_at = created, !.updated_at = updated] :
        p \in Partials, created \in {Undef, CarriedStamp}, updated \in {Undef, ISO(0)}}

NextStamps ==
    \/ \E tripData \in Drafts :
            nextId <= MaxIdsStamps /\ TripManager_createTrip(tripData, TRUE)
    \/ \E tripId \in TripIds, tripData \in StampPartials :
            TripManager_updateTrip(tripId, tripData, TRUE)
    \/ \E tripId \in TripIds :
            TripManager_deleteTrip(tripId, TRUE, TRUE)
    \/ Call_exportData
    \/ Call_importData(TRUE, TRUE)
    \/ Tick

SpecStamps == Init /\ [][NextStamps]_vars

----------------------------------------------------------------------------
(* Claims checked under Spec *)

\* C1: deleting a stored trip returns true; afterwards the trip is absent,
\* no item of it is listed, and the items listed for every other trip id are
\* the ones listed before.
C1_CascadeDelete ==
    [][\A tripId \in TripIds, free \in Room :
          (FindIndex(trips, tripId) # 0 /\ TripManager_deleteTrip(tripId, free, free))
              => /\ last'.outcome = "return" /\ last'.flag
                 /\ LocalStorageService_getTrip(trips', tripItems', tripId) = <<>>
                 /\ LocalStorageService_getTripItems(tripItems', tripId) = <<>>
                 /\ \A i \in 1..Len(tripItems') : tripItems'[i].trip_id # tripId
                 /\ \A other \in TripIds \ {tripId} :
                        LocalStorageService_getTripItems(tripItems', other)
                            = LocalStorageService_getTripItems(tripItems, other)]_vars

\* a trip was deleted after every generateId() call was spent, the store
\* was left with no trip, and an item of another trip id is still listed
C1_Witness ==
    /\ last.op = "deleteTrip" /\ last.outcome = "return" /\ last.flag
    /\ nextId > MaxIds
    /\ trips = <<>>
    /\ LocalStorageService_getTripItems(tripItems, last.id) = <<>>
    /\ \E i \in 1..Len(tripItems) : tripItems[i].trip_id # last.id

\* C2: creating an item whose trip_id names no stored trip throws and leaves
\* the item and trip arrays as they were.
C2_ReferentialIntegrity ==
    [][\A itemData \in Items, free \in Room :
          (FindIndex(trips, itemData.trip_id) = 0
           /\ Call_createTripItem(itemData, free, free))
              => /\ last'.outcome = "throw"
                 /\ tripItems' = tripItems
                 /\ trips' = trips]_vars

\* C3: the record createTrip returned is the one getTrip returns for its id.
C3_CreateThenGet ==
    (last.op = "createTrip" /\ last.outcome = "return")
        => /\ last.value # <<>>
           /\ LocalStorageService_getTrip(trips, tripItems, last.value[1].id) = last.value

\* C7: deleting a trip id that is not stored returns false, throws nothing,
\* and leaves the trip and item arrays as they were.
C7_IdempotentDelete ==
    [][\A tripId \in TripIds, free \in Room :
          (FindIndex(trips, tripId) = 0 /\ TripManager_deleteTrip(tripId, free, free))
              => /\ last'.outcome = "return"
                 /\ last'.flag = FALSE
                 /\ trips' = trips
                 /\ tripItems' = tripItems]_vars

\* C10: an operation during which a store write failed throws an error of
\* its own kind and returns no record.
C10_StoreFailureSurfaced ==
    last.rejected
        => /\ last.outcome = "throw"
           /\ last.error \notin {ValidationFailed, TripNotFound, DeleteFailed, RequestFailed}
           /\ last.value = <<>>

----------------------------------------------------------------------------
(* Claims checked under SpecDates *)

\* C4: every stored trip has valid dates with start_date no later than
\* end_date, whatever createTrip and updateTrip calls were made.
C4_TripDateInvariant ==
    \A i \in 1..Len(trips) :
        /\ isValidDate(trips[i].start_date)
        /\ isValidDate(trips[i].end_date)
        /\ ~DateGreater(trips[i].start_date, trips[i].end_date)

\* C6: createTrip with a start_date later than its end_date throws the
\* validation error, the fields it cites include end_date, and the trip and
\* item arrays are as they were.
C6_InvertedDatesRejected ==
    [][\A tripData \in DateDrafts, free \in Room :
          (DateGreater(tripData.start_date, tripData.end_date)
           /\ TripManager_createTrip(tripData, free))
              => /\ last'.outcome = "throw"
                 /\ last'.error = ValidationFailed
                 /\ \E i \in 1..Len(last'.errors) : last'.errors[i] = "end_date"
                 /\ trips' = trips
                 /\ tripItems' = tripItems
                 /\ nextId' = nextId]_vars

\* createTrip threw citing end_date alone (a draft with a valid title and
\* two valid dates, inverted) on a store that holds a trip
C6_Witness ==
    /\ last.op = "createTrip"
    /\ last.outcome = "throw"
    /\ last.error = ValidationFailed
    /\ last.errors = <<"end_date">>
    /\ trips # <<>>

\* C16: updateTrip with an id that no stored trip has throws the not-found
\* error and leaves the trip and item arrays as they were.
C16_UpdateAbsentTrip ==
    [][\A tripId \in TripIds, tripData \in DatePartials, free \in Room :
          (FindIndex(trips, tripId) = 0 /\ TripManager_updateTrip(tripId, tripData, free))
              => /\ last'.outcome = "throw"
                 /\ last'.error = TripNotFound
                 /\ trips' = trips
                 /\ tripItems' = tripItems]_vars

\* C17: every stored trip has one of the five statuses.
C17_TripStatusInvariant ==
    \A i \in 1..Len(trips) : trips[i].status \in StatusMapKeys

----------------------------------------------------------------------------
(* Claims checked under SpecItemDates *)

\* C18: every stored trip item that has both a start_datetime and an
\* end_datetime starts strictly before it ends.
C18_ItemDatetimeInvariant ==
    \A i \in 1..Len(tripItems) :
        (HasOwn(tripItems[i], "start_datetime") /\ HasOwn(tripItems[i], "end_datetime"))
            => DateValue(tripItems[i].start_datetime) < DateValue(tripItems[i].end_datetime)

----------------------------------------------------------------------------
(* Claims checked under SpecQueries *)

\* C19: getStatistics returns the number of stored trips as the total and,
\* for each of the five statuses, the number of stored trips with that
\* status; the five counts add up to the total.
C19_StatisticsCount ==
    [][last'.op = "getStatistics" =>
          LET stats == last'.value[1]
              Read(status) == IF status \in DOMAIN stats THEN stats[status] ELSE 0
              Stored(status) ==
                  Cardinality({i \in 1..Len(trips) : Get(trips[i], "status") = status})
          IN  /\ stats.total = Len(trips)
              /\ \A status \in StatusMapKeys : Read(status) = Stored(status)
              /\ Read("planning") + Read("confirmed") + Read("ongoing")
                     + Read("completed") + Read("cancelled") = stats.total]_vars

\* C20: a search for s returns exactly the stored trips whose title or
\* description contains s, letter case ignored, with an absent title or
\* description read as the empty string; it never raises.
C20_SearchTitleOrDescription ==
    [][(last'.op \in {"getTrips", "searchTrips"} /\ last'.id # Undef) =>
          LET searchTerm == ToLowerCase(last'.id)
              Text(trip, key) == IF Get(trip, key) = Undef THEN "" ELSE Get(trip, key)
              Matches(trip) == \/ Includes(ToLowerCase(Text(trip, "title")), searchTerm)
                               \/ Includes(ToLowerCase(Text(trip, "description")), searchTerm)
          IN  /\ last'.outcome = "return"
              /\ last'.value = SelectSeq(trips, Matches)]_vars

----------------------------------------------------------------------------
(* Claims checked under SpecListing *)

\* C21: loadTrips with no sort returns the matching trips in insertion
\* order; with a sort it returns a permutation of them ordered by the named
\* field in the named direction; a status of "all" or none filters nothing
\* and any other status keeps exactly the trips with that status.
C21_ListOrdering ==
    [][\A options \in ListOptions :
          TripManager_loadTrips(options) =>
              LET HasStatus(trip) == trip.status = options.status
                  matching == IF options.status \in {Undef, "all"}
                              THEN trips ELSE SelectSeq(trips, HasStatus)
                  listed == last'.value
                  Key(trip) ==
                      CASE options.sort = "start_date_desc" -> 0 - DateValue(trip.start_date)
                        [] options.sort = "start_date_asc"  -> DateValue(trip.start_date)
                        [] options.sort = "created_desc"    -> 0 - DateValue(trip.created_at)
                        [] options.sort = "updated_desc"    -> 0 - DateValue(trip.updated_at)
              IN  /\ last'.outcome = "return"
                  /\ options.sort = Undef => listed = matching
                  /\ options.sort # Undef =>
                        /\ Len(listed) = Len(matching)
                        /\ \A i \in 1..Len(matching) :
                              \E j \in 1..Len(listed) : listed[j] = matching[i]
                        /\ \A i, j \in 1..Len(listed) :
                              i < j => Key(listed[i]) <= Key(listed[j])]_vars

----------------------------------------------------------------------------
(* Claims checked under SpecReads *)

\* C22: getTrips (with any status, search and sort), getTrip, getTripItems
\* and getStatistics leave the stored trips and items as they were, order
\* included, and the same read made again right away returns the same.
C22_ReadsHaveNoSideEffects ==
    [][LET Same == trips' = trips /\ tripItems' = tripItems IN
       /\ \A f \in ReadFilters :
             Call_getTrips(f) =>
                 /\ Same
                 /\ last'.outcome = "return"
                 /\ last'.value = LocalStorageService_getTrips(trips', f).value
       /\ \A tripId \in TripIds :
             TripManager_getTripById(tripId) =>
                 Same /\ last'.value = LocalStorageService_getTrip(trips', tripItems', tripId)
       /\ \A tripId \in TripIds :
             Call_getTripItems(tripId) =>
                 Same /\ last'.value = LocalStorageService_getTripItems(tripItems', tripId)
       /\ Call_getStatistics =>
                 Same /\ last'.value = <<StorageManager_getStatistics(trips')>>]_vars

\* a sorted listing that differs from the stored order has been returned
C22_Witness ==
    /\ last.op = "getTrips"
    /\ Len(trips) = 2
    /\ Len(last.value) = 2
    /\ last.value # trips
    /\ DateValue(trips[1].start_date) > DateValue(trips[2].start_date)

----------------------------------------------------------------------------
(* Claims checked under SpecWritten *)

\* C23: every stored item's trip_id is the id of a stored trip.
C23_NoOrphanItems ==
    \A i \in 1..Len(tripItems) : FindIndex(trips, tripItems[i].trip_id) # 0

----------------------------------------------------------------------------
(* Claims checked under SpecReminders *)

\* C24: executeReminder goes on to mark a reminder 'sent' only when one of
\* the methods the reminder lists was delivered, and takes the retry path
\* when every listed method failed.
C24_SentOnlyAfterDelivery ==
    \A i \in 1..Len(notifier.calls) :
        /\ notifier.calls[i].pc = "markSent" => notifier.calls[i].delivered
        /\ (notifier.calls[i].pc \in {"retryPatch", "failPatch"} /\ ~notifier.calls[i].caught)
               => ~notifier.calls[i].delivered

\* C26: executeReminder is started for a reminder only when no call for it
\* is in progress and no retry timer is registered for it, other than the
\* timer whose callback makes the start; and at most one retry timer per
\* reminder is outstanding.
C26_NoDuplicateExecution ==
    [][\A rid \in ReminderIds :
          /\ notifier'.attempts[rid] > notifier.attempts[rid] =>
                /\ \A i \in 1..Len(notifier.calls) : notifier.calls[i].rid # rid
                /\ \A t \in notifier.timers :
                      (t.handle = notifier.retryTimeouts[rid]) => t \notin notifier'.timers
          /\ Cardinality({t \in notifier'.timers : t.rid = rid}) <= 1]_vars

\* C27: once stopChecking has returned and until startChecking is called,
\* checkInterval is null, retryTimeouts is empty, and no reminder is
\* executed or has its status updated.
C27_StopCheckingIsFinal ==
    [][notifier'.stopped =>
          /\ ~notifier'.checkInterval
          /\ \A rid \in ReminderIds : notifier'.retryTimeouts[rid] = 0
          /\ notifier.stopped =>
                /\ notifier'.attempts = notifier.attempts
                /\ \A rid \in ReminderIds :
                      notifier.remote[rid].status # "absent" =>
                          /\ notifier'.remote[rid].status = notifier.remote[rid].status
                          /\ notifier'.remote[rid].retry_count = notifier.remote[rid].retry_count]_vars

----------------------------------------------------------------------------
(* Claims checked under SpecRetries *)

\* C25: a reminder whose every delivery fails is executed at most
\* max_retries + 1 times (3 retries when max_retries is unset), its
\* retry_count never exceeds max_retries, and once it is marked 'failed' it
\* is not executed again.
C25_BoundedRetry ==
    [][\A rid \in ReminderIds :
          LET maxRetries == MaxRetriesOf(notifier'.remote[rid].max_retries) IN
          /\ notifier'.attempts[rid] <= maxRetries + 1
          /\ notifier'.remote[rid].retry_count <= maxRetries
          /\ notifier.remote[rid].status = "failed"
                 => notifier'.attempts[rid] = notifier.attempts[rid]]_vars

----------------------------------------------------------------------------
(* Claims checked under SpecCarriedIds *)

\* C5: when updateTrip(tripId, tripData) returns, the record it returns has
\* the id tripId, and the stored trips have the ids they had, in place.
C5_TripIdImmutable ==
    [][\A tripId \in TripIds, tripData \in CarriedPartials, free \in Room :
          (TripManager_updateTrip(tripId, tripData, free) /\ last'.outcome = "return")
              => /\ last'.value[1].id = tripId
                 /\ Len(trips') = Len(trips)
                 /\ \A i \in 1..Len(trips) : trips'[i].id = trips[i].id]_vars

----------------------------------------------------------------------------
(* Claims checked under SpecItems *)

\* C8: reorderTripItems on a stored trip with a list holding an id that is
\* not the id of a stored item of the trip throws (the validation error,
\* unless the request itself failed) and changes no sort_order, stored or
\* loaded; with a list of the trip's own items and a successful request,
\* every listed item is stored with its position as sort_order.
C8_ReorderAllOrNothing ==
    [][\A tripId \in StoredTripIds, ids \in OrderedIdLists, success \in BOOLEAN :
          LET IsItemOf(id) ==
                \E i \in 1..Len(tripItems) :
                    tripItems[i].id = id /\ tripItems[i].trip_id = tripId
          IN  TripManager_reorderTripItems(tripId, ItemOrders(ids), success)
                => IF \E i \in 1..Len(ids) : ~IsItemOf(ids[i])
                   THEN /\ last'.outcome = "throw"
                        /\ success => last'.error = ValidationFailed
                        /\ tripItems' = tripItems
                        /\ currentTrip' = currentTrip
                   ELSE success =>
                          \A i \in 1..Len(ids) :
                              tripItems'[FindIndex(tripItems', ids[i])].sort_order
                                  = ToString(i - 1)]_vars

\* C9: getTripItems lists the items of every stored trip by sort_order when
\* every item of the trip has one, else by start_datetime, ties in
\* insertion order.
C9_ListingOrder ==
    \A tripId \in StoredTripIds :
        LET items == ItemsOfTrip(tripItems, tripId) IN
        LocalStorageService_getTripItems(tripItems, tripId)
            = IF \A i \in 1..Len(items) : items[i].sort_order # Undef
              THEN StableSortBySortOrder(items)
              ELSE SortByStartDatetime(items)

----------------------------------------------------------------------------
(* Claims checked under SpecTouch *)

\* C11: an operation during which a store write failed leaves the stored
\* trip and item arrays as they were before it.
C11_FailureLeavesStateUntouched ==
    [][last'.rejected => (trips' = trips /\ tripItems' = tripItems)]_vars

\* C14: an item create, update or delete that succeeds sets the updated_at
\* of the trip the item belongs to to the time of the call, and changes no
\* other property of that trip and no other trip.  (A step that leaves
\* `last` as it was is no item operation that succeeded: such a call returns
\* a new id, the time of the call, or TRUE for an item that is now gone.)
C14_ChildTouchesParent ==
    [][LET Touched(tripId) ==
             /\ Len(trips') = Len(trips)
             /\ \A i \in 1..Len(trips) :
                    trips'[i] = IF trips[i].id = tripId
                                THEN [trips[i] EXCEPT !.updated_at = ISO(clock)]
                                ELSE trips[i]
       IN  (last' # last /\ ~last'.rejected)
              => CASE last'.op = "createTripItem" ->
                        Touched(last'.value[1].trip_id)
                   [] last'.op = "updateTripItem" /\ last'.value # <<>> ->
                        Touched(last'.value[1].trip_id)
                   [] last'.op = "deleteTripItem" /\ last'.flag ->
                        Touched(tripItems[FindIndex(tripItems, last'.id)].trip_id)
                   [] OTHER -> TRUE]_vars

\* an item was created, with nothing rejected, for a stored trip that was
\* created at time 0 and now has the updated_at of time 1
C14_Witness ==
    /\ last.op = "createTripItem" /\ ~last.rejected
    /\ clock = 1
    /\ \E i \in 1..Len(trips) :
            /\ trips[i].id = last.id
            /\ trips[i].created_at = ISO(0)
            /\ trips[i].updated_at = ISO(1)
    /\ \E i \in 1..Len(tripItems) : tripItems[i] = last.value[1]

----------------------------------------------------------------------------
(* Claims checked under SpecTabs *)

\* C12: when a tab writes the items array back, every item that another tab
\* stored since this tab read the array is gone from the store: the write of
\* the other tab is overwritten by the stale one.
C12_LostUpdate ==
    [][\A t \in Tabs :
          (Tab_createTripItem_setItems(t) \/ Tab_deleteTrip_setItems(t))
              => \A i \in 1..Len(tripItems) :
                    (\A j \in 1..Len(tabs[t].local) : tabs[t].local[j].id # tripItems[i].id)
                        => \A j \in 1..Len(tripItems') : tripItems'[j].id # tripItems[i].id]_vars

\* both tabs completed a createTripItem for the same stored trip, and the
\* item the first tab's call returned is not stored while the second's is
C12_Witness ==
    /\ tabs[1].pc = "idle" /\ tabs[2].pc = "idle"
    /\ tabs[1].value # <<>> /\ tabs[2].value # <<>>
    /\ tabs[1].value[1].trip_id = tabs[2].value[1].trip_id
    /\ tabs[1].value[1].trip_id \in StoredTripIds
    /\ \A i \in 1..Len(tripItems) : tripItems[i].id # tabs[1].value[1].id
    /\ \E i \in 1..Len(tripItems) : tripItems[i] = tabs[2].value[1]

----------------------------------------------------------------------------
(* Claims checked under SpecStamps *)

\* C13: in every step, a trip stored before and after it has an updated_at
\* no earlier than the one it had.
C13_UpdatedAtMonotonic ==
    [][LET Time(stamp) == CHOOSE ms \in 0..(MaxClock + 1) : ISO(ms) = stamp
       IN  \A i \in 1..Len(trips), j \in 1..Len(trips') :
                trips[i].id = trips'[j].id
                    => Time(trips'[j].updated_at) >= Time(trips[i].updated_at)]_vars

\* C15: in every step, a trip stored before and after it has the created_at
\* it had.
C15_CreatedAtSetOnce ==
    [][\A i \in 1..Len(trips), j \in 1..Len(trips') :
            trips[i].id = trips'[j].id => trips'[j].created_at = trips[i].created_at]_vars

----------------------------------------------------------------------------
(* Claims checked under SpecBackoff *)

\* C28: the delay of the timer set before the retry of a reminder whose
\* retry_count is k is min(300000, 2^k * 60000) ms; the delays do not
\* decrease as k grows and none is longer than five minutes.
C28_ExponentialBackoff ==
    \A t \in notifier.timers :
        LET k == t.rc - 1 IN
        /\ t.delay <= RetryDelayCap
        /\ t.delay = IF Pow2(k) * RetryDelayBase <= RetryDelayCap
                     THEN Pow2(k) * RetryDelayBase ELSE RetryDelayCap
        /\ \A u \in notifier.timers : u.rc <= t.rc => u.delay <= t.delay

\* a timer is set for a retry whose uncapped delay would be eight minutes
C28_Witness ==
    \E t \in notifier.timers :
        /\ t.rc - 1 >= 3
        /\ Pow2(t.rc - 1) * RetryDelayBase > RetryDelayCap
        /\ t.delay = RetryDelayCap

----------------------------------------------------------------------------
(* Claims checked under SpecSession *)

\* C29: whenever isAuthenticated is true the access token is not null and
\* the token-refresh interval is set, also after a logout followed by a
\* login or a registration.
C29_RefreshStaysArmed ==
    session.isAuthenticated =>
        /\ session.tokens.access_token # Null
        /\ session.refreshTimer

----------------------------------------------------------------------------
(* Claims checked under SpecImports *)

\* C30: after every addImportHistory call the stored import history has at
\* most 50 records, and they are the records added last, the one just added
\* included, in the order in which they were added.
C30_ImportHistoryBounded ==
    [][nextId' # nextId =>
          LET added  == Append(importHistory.records, last'.value[1])
              latest == IF Len(added) > MaxImportHistory
                        THEN [i \in 1..MaxImportHistory |->
                                 added[Len(added) - MaxImportHistory + i]]
                        ELSE added
          IN  /\ Len(importHistory'.records) <= MaxImportHistory
              /\ importHistory'.records = latest]_vars

====
